---- MODULE Spec2Model ----
(***************************************************************************)
(* Temporal feature/state engine and Monte Carlo season simulator of       *)
(* football_bi (features.py, simulation.py, prediction_service.py).        *)
(*                                                                         *)
(* Floats are fixed-point integers:                                        *)
(*   Elo ratings          in 1/EloScale  Elo points  (150000 = 1500.0)     *)
(*   expected scores      in 1/ProbScale             (1000   = 1.0)        *)
(*   per-game rates/means in 1/RateScale             (1000   = 1.0)        *)
(*   heuristic score      in 1/1000000                                     *)
(*   outcome probabilities in 1/PointScale           (10000  = 1.0)        *)
(* Dates are day numbers; None is NoDate.  Teams, leagues and seasons are  *)
(* numbers so that the sorts of the code (alphabetical, by year) are <.    *)
(***************************************************************************)
EXTENDS Integers, Sequences, FiniteSets, TLC

\* ------------------------------------------------------------------ bounds
MaxEngineMatches == 6
MaxReplayMatches == 3
MaxSeason == 2
MaxSims == 2
MaxPlayed == 2
MaxBuilderSteps == 2
MaxFiles == 2
MaxCodeLen == 5

\* ------------------------------------------------------- program constants
K_FACTOR == 20
HOME_ELO_ADVANTAGE == 60
INITIAL_ELO == 1500
WINDOW_MAXLEN == 5
DEFAULT_REST_DAYS == 7
PROXY_REST_DAYS == 5
FIXTURE_GAP_DAYS == 2

\* fixed-point scales of the float fields
EloScale == 100
ProbScale == 1000
RateScale == 1000
PointScale == 10000
NoDate == -1

Results == {"H", "D", "A"}
Teams == 1..3
Leagues == 1..2
Seeds == {7, 14, 18, 42}

\* ----------------------------------------------------------------- helpers
Min(a, b) == IF a < b THEN a ELSE b
Max(a, b) == IF a > b THEN a ELSE b
Abs(a) == IF a < 0 THEN 0 - a ELSE a

RECURSIVE SumSeq(_)
SumSeq(s) == IF s = <<>> THEN 0 ELSE Head(s) + SumSeq(Tail(s))

RECURSIVE TenTo(_)
TenTo(n) == IF n = 0 THEN 1 ELSE 10 * TenTo(n - 1)

\* a <= b for two tuples of numbers of one length, the first place first
RECURSIVE LexLeq(_, _)
LexLeq(a, b) ==
    IF a = <<>> THEN TRUE
    ELSE IF a[1] < b[1] THEN TRUE
    ELSE IF a[1] > b[1] THEN FALSE
    ELSE LexLeq(Tail(a), Tail(b))

\* the entry x = [key, val] put after the last entry of the sorted s whose
\* key is not above x's
RECURSIVE InsertByKey(_, _)
InsertByKey(s, x) ==
    IF s = <<>> THEN <<x>>
    ELSE IF LexLeq(s[Len(s)].key, x.key) THEN Append(s, x)
    ELSE Append(InsertByKey(SubSeq(s, 1, Len(s) - 1), x), s[Len(s)])

\* the entries [key, val] of s by increasing key, equal keys in the order of s
RECURSIVE SortByKey(_)
SortByKey(s) ==
    IF s = <<>> THEN <<>>
    ELSE InsertByKey(SortByKey(SubSeq(s, 1, Len(s) - 1)), s[Len(s)])

\* the values of a sequence of entries [key, val]
Vals(s) == [i \in 1..Len(s) |-> s[i].val]

\* the members of a set of numbers in increasing order
RECURSIVE Ascending(_)
Ascending(S) ==
    IF S = {} THEN <<>>
    ELSE LET m == CHOOSE x \in S : \A y \in S : y <= x
         IN  Append(Ascending(S \ {m}), m)

RECURSIVE Concat(_)
Concat(ss) == IF ss = <<>> THEN <<>> ELSE Head(ss) \o Concat(Tail(ss))

Range(f) == {f[x] : x \in DOMAIN f}

\* the last n entries of s, in order
LastN(s, n) == IF Len(s) <= n THEN s ELSE SubSeq(s, Len(s) - n + 1, Len(s))

\* 10 ** (k/16) in 1/1000, k = 0..15
Pow10Table == <<1000, 1155, 1334, 1540, 1778, 2054, 2371, 2738,
                3162, 3652, 4217, 4870, 5623, 6494, 7499, 8660>>

\* 10.0 ** (x16 / 16) in 1/1000
Pow10(x16) ==
    LET q == x16 \div 16
        r == x16 % 16
    IN  IF q >= 0 THEN Pow10Table[r + 1] * TenTo(q)
        ELSE Pow10Table[r + 1] \div TenTo(0 - q)

\* 10.0 ** (x / (16 * unit)) in 1/1000, linear between the table's points
Pow10Frac(x, unit) ==
    LET k == x \div unit
        lo == Pow10(k)
        hi == Pow10(k + 1)
    IN  lo + ((hi - lo) * (x % unit)) \div unit

\* ------------------------------------------------- TeamState (features.py)
TeamState ==
    [elo |-> INITIAL_ELO * EloScale,
     season_matches |-> 0,
     season_points |-> 0,
     season_goals_for |-> 0,
     season_goals_against |-> 0,
     recent_points |-> <<>>,
     recent_goal_diff |-> <<>>,
     last_match_date |-> NoDate]

\* deque(maxlen=5).append: a full deque drops its oldest entry
DequeAppendNoEvict(dq, x) == Append(dq, x)
DequeAppendDropNewest(dq, x) ==
    IF Len(dq) >= WINDOW_MAXLEN THEN Append(SubSeq(dq, 1, Len(dq) - 1), x) ELSE Append(dq, x)
DequeAppend(dq, x) ==
    IF Len(dq) >= WINDOW_MAXLEN THEN Append(Tail(dq), x) ELSE Append(dq, x)

safe_mean(values) ==
    IF Len(values) > 0 THEN (SumSeq(values) * RateScale) \div Len(values) ELSE 0

safe_ppg_unplayed_as_one(points, matches) ==
    IF matches # 0 THEN (points * RateScale) \div matches ELSE RateScale
safe_ppg(points, matches) ==
    IF matches # 0 THEN (points * RateScale) \div matches ELSE 0

safe_gdpg(goals_for, goals_against, matches) ==
    IF matches # 0 THEN ((goals_for - goals_against) * RateScale) \div matches ELSE 0

rest_days(state, match_date) ==
    IF state.last_match_date = NoDate THEN DEFAULT_REST_DAYS
    ELSE match_date - state.last_match_date

\* 1.0 / (1.0 + 10.0 ** ((away_elo - (home_elo + HOME_ELO_ADVANTAGE)) / 400.0)),
\* the power read from the table in steps of 1/16 (25 Elo points)
home_expected_score(home_elo, away_elo) ==
    LET d == away_elo - (home_elo + HOME_ELO_ADVANTAGE * EloScale)
    IN  (ProbScale * 1000) \div (1000 + Pow10Frac(d, 25 * EloScale))

result_to_points(result) ==
    IF result = "H" THEN <<3, 0>>
    ELSE IF result = "A" THEN <<0, 3>>
    ELSE <<1, 1>>

result_home_score(result) ==
    IF result = "H" THEN ProbScale
    ELSE IF result = "A" THEN 0
    ELSE ProbScale \div 2

\* K_FACTOR * x for x in 1/ProbScale, as an Elo amount
EloDelta(k, x) == (k * x * EloScale) \div ProbScale

ResetToInitialElo(state) ==
    TeamState
reset_for_new_season(state) ==
    [state EXCEPT
        !.elo = (75 * state.elo + 25 * (INITIAL_ELO * EloScale)) \div 100,
        !.season_matches = 0,
        !.season_points = 0,
        !.season_goals_for = 0,
        !.season_goals_against = 0,
        !.recent_points = <<>>,
        !.recent_goal_diff = <<>>,
        !.last_match_date = NoDate]

snapshot(state, match_date) ==
    [elo_pre |-> state.elo,
     matches_played_pre |-> state.season_matches,
     points_per_game_pre |-> safe_ppg(state.season_points, state.season_matches),
     goal_diff_per_game_pre |->
        safe_gdpg(state.season_goals_for, state.season_goals_against, state.season_matches),
     recent_points_avg_pre |-> safe_mean(state.recent_points),
     recent_goal_diff_avg_pre |-> safe_mean(state.recent_goal_diff),
     rest_days_pre |-> rest_days(state, match_date)]

\* the feature columns every row builder derives from the two snapshots
FeatureRow(home, away) ==
    [home_elo_pre |-> home.elo_pre,
     away_elo_pre |-> away.elo_pre,
     elo_diff |-> home.elo_pre - away.elo_pre,
     home_matches_played_pre |-> home.matches_played_pre,
     away_matches_played_pre |-> away.matches_played_pre,
     home_points_per_game_pre |-> home.points_per_game_pre,
     away_points_per_game_pre |-> away.points_per_game_pre,
     ppg_diff |-> home.points_per_game_pre - away.points_per_game_pre,
     home_goal_diff_per_game_pre |-> home.goal_diff_per_game_pre,
     away_goal_diff_per_game_pre |-> away.goal_diff_per_game_pre,
     goal_diff_pg_diff |-> home.goal_diff_per_game_pre - away.goal_diff_per_game_pre,
     home_recent_points_avg_pre |-> home.recent_points_avg_pre,
     away_recent_points_avg_pre |-> away.recent_points_avg_pre,
     recent_points_diff |-> home.recent_points_avg_pre - away.recent_points_avg_pre,
     home_recent_goal_diff_avg_pre |-> home.recent_goal_diff_avg_pre,
     away_recent_goal_diff_avg_pre |-> away.recent_goal_diff_avg_pre,
     recent_goal_diff_diff |-> home.recent_goal_diff_avg_pre - away.recent_goal_diff_avg_pre,
     home_rest_days_pre |-> home.rest_days_pre,
     away_rest_days_pre |-> away.rest_days_pre,
     rest_days_diff |-> home.rest_days_pre - away.rest_days_pre]

\* ------------------------------------------ per-match transition, 3 engines
\* Each takes the pre-match states <<home, away>> and a match record
\* [result, home_goals, away_goals, match_date]; returns <<home', away'>>.

\* features.py, build_match_features lines 148-172
FeatEloStaleHome(hs, as, result) ==
    LET expected_home == home_expected_score(hs.elo, as.elo)
        actual_home == result_home_score(result)
        hs1 == [hs EXCEPT !.elo = hs.elo + EloDelta(K_FACTOR, actual_home - expected_home)]
        expected_again == home_expected_score(hs1.elo, as.elo)
    IN  <<hs1,
          [as EXCEPT !.elo = as.elo + EloDelta(K_FACTOR,
                (ProbScale - actual_home) - (ProbScale - expected_again))]>>
FeatElo(hs, as, result) ==
    LET expected_home == home_expected_score(hs.elo, as.elo)
        actual_home == result_home_score(result)
        hs1 == [hs EXCEPT !.elo = hs.elo + EloDelta(K_FACTOR, actual_home - expected_home)]
    IN  <<hs1,
          [as EXCEPT !.elo = as.elo + EloDelta(K_FACTOR,
                (ProbScale - actual_home) - (ProbScale - expected_home))]>>

FeatUpdate(pre, m) ==
    LET pts == result_to_points(m.result)
        home_g == m.home_goals
        away_g == m.away_goals
        hs == [pre[1] EXCEPT
                !.season_matches = @ + 1,
                !.season_points = @ + pts[1],
                !.season_goals_for = @ + home_g,
                !.season_goals_against = @ + away_g,
                !.recent_points = DequeAppend(@, pts[1]),
                !.recent_goal_diff = DequeAppend(@, home_g - away_g),
                !.last_match_date = m.match_date]
        as == [pre[2] EXCEPT
                !.season_matches = @ + 1,
                !.season_points = @ + pts[2],
                !.season_goals_for = @ + away_g,
                !.season_goals_against = @ + home_g,
                !.recent_points = DequeAppend(@, pts[2]),
                !.recent_goal_diff = DequeAppend(@, away_g - home_g),
                !.last_match_date = m.match_date]
    IN  FeatElo(hs, as, m.result)

\* simulation.py, _update_state lines 73-80
update_state(state, match_date, gf, ga, points) ==
    [state EXCEPT
        !.season_matches = @ + 1,
        !.season_points = @ + points,
        !.season_goals_for = @ + gf,
        !.season_goals_against = @ + ga,
        !.recent_points = DequeAppend(@, points),
        !.recent_goal_diff = DequeAppend(@, gf - ga),
        !.last_match_date = match_date]

\* simulation.py, _expected_home lines 40-41
expected_home_sim(home_elo, away_elo) ==
    LET d == away_elo - (home_elo + HOME_ELO_ADVANTAGE * EloScale)
    IN  (ProbScale * 1000) \div (1000 + Pow10Frac(d, 25 * EloScale))

\* simulation.py, _update_elo lines 83-87
update_elo_k_away_only(home_state, away_state, result) ==
    LET expected_home == expected_home_sim(home_state.elo, away_state.elo)
        actual_home == result_home_score(result)
    IN  <<home_state,
          [away_state EXCEPT !.elo = away_state.elo + EloDelta(K_FACTOR,
                (ProbScale - actual_home) - (ProbScale - expected_home))]>>
update_elo(home_state, away_state, result) ==
    LET expected_home == expected_home_sim(home_state.elo, away_state.elo)
        actual_home == result_home_score(result)
        hs1 == [home_state EXCEPT
                  !.elo = home_state.elo + EloDelta(K_FACTOR, actual_home - expected_home)]
    IN  <<hs1,
          [away_state EXCEPT !.elo = away_state.elo + EloDelta(K_FACTOR,
                (ProbScale - actual_home) - (ProbScale - expected_home))]>>

\* the simulator's per-match step: lines 104-106 and 226-228
SimUpdate(pre, m) ==
    LET pts == result_to_points(m.result)
        hs == update_state(pre[1], m.match_date, m.home_goals, m.away_goals, pts[1])
        as == update_state(pre[2], m.match_date, m.away_goals, m.home_goals, pts[2])
    IN  update_elo(hs, as, m.result)

\* prediction_service.py, _home_expected lines 47-48 (60.0 written out)
home_expected_live(home_elo, away_elo) ==
    LET d == away_elo - (home_elo + 60 * EloScale)
    IN  (ProbScale * 1000) \div (1000 + Pow10Frac(d, 25 * EloScale))

\* prediction_service.py, _build_latest_states lines 139-162 (20.0 written out)
LiveUpdate(pre, m) ==
    LET pts == result_to_points(m.result)
        hg == m.home_goals
        ag == m.away_goals
        hs == [pre[1] EXCEPT
                !.season_matches = @ + 1,
                !.season_points = @ + pts[1],
                !.season_goals_for = @ + hg,
                !.season_goals_against = @ + ag,
                !.recent_points = DequeAppend(@, pts[1]),
                !.recent_goal_diff = DequeAppend(@, hg - ag),
                !.last_match_date = m.match_date]
        as == [pre[2] EXCEPT
                !.season_matches = @ + 1,
                !.season_points = @ + pts[2],
                !.season_goals_for = @ + ag,
                !.season_goals_against = @ + hg,
                !.recent_points = DequeAppend(@, pts[2]),
                !.recent_goal_diff = DequeAppend(@, ag - hg),
                !.last_match_date = m.match_date]
        expected_home == home_expected_live(hs.elo, as.elo)
        actual_home == result_home_score(m.result)
        hs1 == [hs EXCEPT !.elo = hs.elo + EloDelta(20, actual_home - expected_home)]
    IN  <<hs1,
          [as EXCEPT !.elo = as.elo + EloDelta(20,
                (ProbScale - actual_home) - (ProbScale - expected_home))]>>

\* =========================================================== state
VARIABLES
    \* two team states driven through the three engines
    eng_pre,        \* <<side 1, side 2>> before the last step
    eng_post,       \* [feat, sim, live |-> <<side 1, side 2>>] after the last step
    eng_match,      \* the last match record
    eng_home,       \* the side that was at home in the last match
    eng_log,        \* per side, every result pushed since the last season reset
    eng_n,          \* matches applied
    eng_season,     \* season counter
    eng_last,       \* "init", "match" or "reset"
    \* build_match_features (features.py)
    rp_pc,          \* "loop" or "done"
    rp_hist,        \* the rows of the sorted frame iterated so far
    league_states,  \* per league, the dict team -> TeamState of line 91
    current_season, \* per league, current_season of line 92 (0 is None)
    all_rows,       \* the rows appended at line 146
    features_df,    \* the frame returned at line 177
    rp_resets,      \* per league and team, the calls of _reset_for_new_season
    latest_states,  \* per league, the states the simulator and the live service
                    \* build from the same frame
    \* run_champion_simulation: its arguments
    df_clean, n_simulations, random_state,
    \* its position, the generator and what it has produced
    sim_pc, run_no, rng, groups, league_outputs, final_df, files, error,
    \* the frame of _league_simulation
    league_code, teams, remaining, store, base_states, base_table, last_date,
    champion_count, top3_count, points_sum, rep_i,
    \* the frame of one replication
    states, table, fixtures, fix_i, current_date,
    \* history: the base as _init_state_and_table returned it, the generator
    \* at the start of every replication, the last simulated fixture, the
    \* outcome of the first run
    base_snapshot, rep_log, last_fx, prev_run,
    \* the fixtures simulated so far in the replication, and the final ranking
    \* and table of every replication finished
    rep_trace, rank_log,
    \* the feature row builders called on a dict of team states: whose builder,
    \* the dict, the last call with its outcome, the steps taken
    bld_kind, bld_states, bld_out, bld_n,
    \* _read_league_files (ingestion.py): its position, the season code of the
    \* file at hand, the year parsed from it, the season_start_year of the
    \* blocks collected, the error
    ing_pc, season_code, start_year, records, ing_error

engVars == <<eng_pre, eng_post, eng_match, eng_home, eng_log, eng_n, eng_season, eng_last>>
rpVars == <<rp_pc, rp_hist, league_states, current_season, all_rows, features_df, rp_resets,
           latest_states>>
simInputs == <<df_clean, n_simulations, random_state>>
simRun == <<sim_pc, run_no, rng, groups, league_outputs, final_df, files, error>>
simLeague == <<league_code, teams, remaining, store, base_states, base_table, last_date,
               champion_count, top3_count, points_sum, rep_i>>
simRep == <<states, table, fixtures, fix_i, current_date>>
simGhost == <<base_snapshot, rep_log, last_fx, prev_run, rep_trace, rank_log>>
simVars == <<simInputs, simRun, simLeague, simRep, simGhost>>
bldVars == <<bld_kind, bld_states, bld_out, bld_n>>
ingVars == <<ing_pc, season_code, start_year, records, ing_error>>
vars == <<engVars, rpVars, simVars, bldVars, ingVars>>

\* ================================================= the three engines
\* A two-team league: the sides swap home and away every match, a match is
\* played the day after the last one.
EngineInitElos == {INITIAL_ELO * EloScale, 1700 * EloScale}
Engines == {"feat", "sim", "live"}

\* the score line of the inputs, by result (the simulator's proxy, line 160)
ScoreOf(result) ==
    IF result = "H" THEN <<2, 1>>
    ELSE IF result = "A" THEN <<1, 2>>
    ELSE <<1, 1>>

NoMatch == [result |-> "D", home_goals |-> 0, away_goals |-> 0, match_date |-> NoDate]
EmptyLog == [points |-> <<>>, goal_diff |-> <<>>]
Swap(pair) == <<pair[2], pair[1]>>
\* <<home, away>> of the sides, and back
ByRole(sides, home) == IF home = 1 THEN sides ELSE Swap(sides)

EngineInit ==
    /\ \E e1 \in EngineInitElos, e2 \in EngineInitElos :
          eng_pre = <<[TeamState EXCEPT !.elo = e1], [TeamState EXCEPT !.elo = e2]>>
    /\ eng_post = [e \in Engines |-> eng_pre]
    /\ eng_match = NoMatch
    /\ eng_home = 1
    /\ eng_log = <<EmptyLog, EmptyLog>>
    /\ eng_n = 0
    /\ eng_season = 1
    /\ eng_last = "init"

EngineIdle ==
    /\ eng_pre = <<TeamState, TeamState>>
    /\ eng_post = [e \in Engines |-> eng_pre]
    /\ eng_match = NoMatch
    /\ eng_home = 1
    /\ eng_log = <<EmptyLog, EmptyLog>>
    /\ eng_n = 0
    /\ eng_season = 1
    /\ eng_last = "init"

\* the match is applied to the same pre-match states by the three engines
EngineMatch ==
    /\ eng_n < MaxEngineMatches
    /\ \E result \in Results :
        LET home == 1 + (eng_n % 2)
            away == 3 - home
            cur == eng_post.feat
            pre == ByRole(cur, home)
            sc == ScoreOf(result)
            m == [result |-> result, home_goals |-> sc[1], away_goals |-> sc[2],
                  match_date |-> eng_n + 1]
            pts == result_to_points(result)
            pushed == ByRole(<<[points |-> pts[1], goal_diff |-> sc[1] - sc[2]],
                               [points |-> pts[2], goal_diff |-> sc[2] - sc[1]]>>, home)
        IN  /\ eng_pre' = cur
            /\ eng_home' = home
            /\ eng_match' = m
            /\ eng_post' = [feat |-> ByRole(FeatUpdate(pre, m), home),
                            sim |-> ByRole(SimUpdate(pre, m), home),
                            live |-> ByRole(LiveUpdate(pre, m), home)]
            /\ eng_log' = [i \in 1..2 |->
                             [points |-> Append(eng_log[i].points, pushed[i].points),
                              goal_diff |-> Append(eng_log[i].goal_diff, pushed[i].goal_diff)]]
    /\ eng_n' = eng_n + 1
    /\ eng_last' = "match"
    /\ UNCHANGED <<eng_season, rpVars, simVars, bldVars, ingVars>>

\* the season changes: features.py lines 96-99 on both teams
EngineReset ==
    /\ eng_season < MaxSeason
    /\ LET cur == eng_post.feat
           nxt == <<reset_for_new_season(cur[1]), reset_for_new_season(cur[2])>>
       IN  /\ eng_pre' = cur
           /\ eng_post' = [e \in Engines |-> nxt]
    /\ eng_log' = <<EmptyLog, EmptyLog>>
    /\ eng_season' = eng_season + 1
    /\ eng_last' = "reset"
    /\ UNCHANGED <<eng_match, eng_home, eng_n, rpVars, simVars, bldVars, ingVars>>

EngineNext == EngineMatch \/ EngineReset

\* ==================================== build_match_features (features.py)
\* The frame is iterated in the order of line 87: league, season_start_year,
\* match_date, home_team.  A season's code is its start year; a league's
\* first season is 1 and its seasons follow each other; the k-th row is
\* played on day k.
ReplayFixtures == {<<1, 2>>, <<3, 1>>}
EmptyDict == [t \in {} |-> TeamState]

\* dict.setdefault(key, TeamState())
setdefault(d, key) == IF key \in DOMAIN d THEN d ELSE d @@ (key :> TeamState)

OutRow(row, home, away) ==
    [league_code |-> row.league_code,
     season_code |-> row.season_code,
     season_start_year |-> row.season_start_year,
     match_date |-> row.match_date,
     home_team |-> row.home_team,
     away_team |-> row.away_team,
     target_result |-> row.result,
     home_goals_actual |-> row.home_goals,
     away_goals_actual |-> row.away_goals,
     feat |-> FeatureRow(home, away)]

\* one iteration of the loop of line 94 on the league's dict: lines 95-172
ReplayRowSnapshotLate(sts, season, row) ==
    LET change == row.season_code # season
        st1 == IF change THEN [t \in DOMAIN sts |-> reset_for_new_season(sts[t])]
               ELSE sts
        st2 == setdefault(setdefault(st1, row.home_team), row.away_team)
        upd == FeatUpdate(<<st2[row.home_team], st2[row.away_team]>>, row)
        st3 == [st2 EXCEPT ![row.home_team] = upd[1], ![row.away_team] = upd[2]]
        home == snapshot(st3[row.home_team], row.match_date)
        away == snapshot(st3[row.away_team], row.match_date)
    IN  [states |-> st3, out |-> OutRow(row, home, away),
         reset |-> IF change THEN DOMAIN sts ELSE {},
         season |-> row.season_code]
ReplayRowKeepsSeason(sts, season, row) ==
    LET change == row.season_code # season
        st1 == IF change THEN [t \in DOMAIN sts |-> reset_for_new_season(sts[t])]
               ELSE sts
        st2 == setdefault(setdefault(st1, row.home_team), row.away_team)
        home == snapshot(st2[row.home_team], row.match_date)
        away == snapshot(st2[row.away_team], row.match_date)
        upd == FeatUpdate(<<st2[row.home_team], st2[row.away_team]>>, row)
        st3 == [st2 EXCEPT ![row.home_team] = upd[1], ![row.away_team] = upd[2]]
    IN  [states |-> st3, out |-> OutRow(row, home, away),
         reset |-> IF change THEN DOMAIN sts ELSE {},
         season |-> season]
ReplayRow(sts, season, row) ==
    LET change == row.season_code # season
        st1 == IF change THEN [t \in DOMAIN sts |-> reset_for_new_season(sts[t])]
               ELSE sts
        st2 == setdefault(setdefault(st1, row.home_team), row.away_team)
        home == snapshot(st2[row.home_team], row.match_date)
        away == snapshot(st2[row.away_team], row.match_date)
        upd == FeatUpdate(<<st2[row.home_team], st2[row.away_team]>>, row)
        st3 == [st2 EXCEPT ![row.home_team] = upd[1], ![row.away_team] = upd[2]]
    IN  [states |-> st3, out |-> OutRow(row, home, away),
         reset |-> IF change THEN DOMAIN sts ELSE {},
         season |-> row.season_code]

\* sort key of lines 87 and 175
RowKeyLeq(a, b) ==
    \/ a.league_code < b.league_code
    \/ /\ a.league_code = b.league_code
       /\ \/ a.season_start_year < b.season_start_year
          \/ /\ a.season_start_year = b.season_start_year
             /\ \/ a.match_date < b.match_date
                \/ /\ a.match_date = b.match_date
                   /\ a.home_team <= b.home_team

\* x put after the last entry of the sorted s whose key is not above x's
RECURSIVE InsertStable(_, _)
InsertStable(s, x) ==
    IF s = <<>> THEN <<x>>
    ELSE IF RowKeyLeq(s[Len(s)], x) THEN Append(s, x)
    ELSE Append(InsertStable(SubSeq(s, 1, Len(s) - 1), x), s[Len(s)])

\* sort_values(..., kind="stable")
RECURSIVE SortRows(_)
SortRows(s) ==
    IF s = <<>> THEN <<>>
    ELSE InsertStable(SortRows(SubSeq(s, 1, Len(s) - 1)), s[Len(s)])

NoLatest == [sim |-> [l \in Leagues |-> EmptyDict], live |-> [l \in Leagues |-> EmptyDict]]

\* the rows of league l in the frame
LeagueRows(hist, l) ==
    LET InLeague(r) == r.league_code = l
    IN  SelectSeq(hist, InLeague)

\* prediction_service.py, _build_latest_states lines 127-128: the rows of the
\* league's last season, by match date
LatestSeasonRows(hist, l) ==
    LET rows == LeagueRows(hist, l)
        season == CHOOSE y \in {rows[i].season_start_year : i \in DOMAIN rows} :
                      \A i \in DOMAIN rows : rows[i].season_start_year <= y
        InSeason(r) == r.season_start_year = season
        season_df == SelectSeq(rows, InSeason)
    IN  Vals(SortByKey([i \in DOMAIN season_df |->
                           [key |-> <<season_df[i].match_date>>, val |-> season_df[i]]]))

\* lines 132-162: the rows applied in turn to the dict
RECURSIVE live_replay(_, _)
live_replay(sts, rows) ==
    IF rows = <<>> THEN sts
    ELSE LET row == Head(rows)
             upd == LiveUpdate(<<sts[row.home_team], sts[row.away_team]>>, row)
         IN  live_replay([sts EXCEPT ![row.home_team] = upd[1], ![row.away_team] = upd[2]],
                         Tail(rows))

\* prediction_service.py, _build_latest_states lines 121-164, for a league
\* with rows: a default state per team of the last season, then its rows
build_latest_states(hist, l) ==
    IF LeagueRows(hist, l) = <<>> THEN EmptyDict
    ELSE LET season_df == LatestSeasonRows(hist, l)
             ts == {season_df[i].home_team : i \in DOMAIN season_df}
                   \cup {season_df[i].away_team : i \in DOMAIN season_df}
         IN  live_replay([t \in ts |-> TeamState], season_df)

\* lines 90-91: every league of the groupby has a dict of its own
one_dict_for_all_leagues(dicts, l, sts) == [k \in DOMAIN dicts |-> sts]
own_league_states(dicts, l, sts) == [dicts EXCEPT ![l] = sts]
ReplayInit ==
    /\ rp_pc = "loop"
    /\ rp_hist = <<>>
    /\ league_states = [l \in Leagues |-> EmptyDict]
    /\ current_season = [l \in Leagues |-> 0]
    /\ all_rows = <<>>
    /\ features_df = <<>>
    /\ rp_resets = [l \in Leagues |-> [t \in Teams |-> 0]]
    /\ latest_states = NoLatest

ReplayIdle ==
    /\ rp_pc = "idle"
    /\ rp_hist = <<>>
    /\ league_states = [l \in Leagues |-> EmptyDict]
    /\ current_season = [l \in Leagues |-> 0]
    /\ all_rows = <<>>
    /\ features_df = <<>>
    /\ rp_resets = [l \in Leagues |-> [t \in Teams |-> 0]]
    /\ latest_states = NoLatest

\* the next row of the sorted frame: an iteration of the loops of lines 90, 94
ProcessMatch ==
    /\ rp_pc = "loop"
    /\ Len(rp_hist) < MaxReplayMatches
    /\ \E l \in Leagues, season \in 1..MaxSeason, fx \in ReplayFixtures, result \in Results :
        /\ IF rp_hist # <<>> /\ l = rp_hist[Len(rp_hist)].league_code
           THEN season - rp_hist[Len(rp_hist)].season_start_year \in {0, 1}
           ELSE /\ season = 1
                /\ rp_hist # <<>> => l > rp_hist[Len(rp_hist)].league_code
        /\ LET sc == ScoreOf(result)
               row == [league_code |-> l, season_code |-> season, season_start_year |-> season,
                       match_date |-> Len(rp_hist) + 1,
                       home_team |-> fx[1], away_team |-> fx[2],
                       result |-> result, home_goals |-> sc[1], away_goals |-> sc[2]]
               step == ReplayRow(league_states[l], current_season[l], row)
           IN  /\ rp_hist' = Append(rp_hist, row)
               /\ league_states' = own_league_states(league_states, l, step.states)
               /\ current_season' = [current_season EXCEPT ![l] = step.season]
               /\ all_rows' = Append(all_rows, step.out)
               /\ rp_resets' = [rp_resets EXCEPT ![l] =
                                   [t \in Teams |-> IF t \in step.reset THEN @[t] + 1 ELSE @[t]]]
    /\ UNCHANGED <<rp_pc, features_df, latest_states, engVars, simVars, bldVars, ingVars>>

\* lines 174-177: the rows sorted and returned
ReplayFinish ==
    /\ rp_pc = "loop"
    /\ features_df' = SortRows(all_rows)
    /\ rp_pc' = "done"
    /\ UNCHANGED <<rp_hist, league_states, current_season, all_rows, rp_resets, latest_states,
                   engVars, simVars, bldVars, ingVars>>


\* ================================ run_champion_simulation (simulation.py)
\* ---- np.random.Generator: a 16-bit linear congruential stream
RngModulus == 65536
NextRng(x) == (25173 * x + 13849) % RngModulus

\* np.random.default_rng(seed=random_state), line 274: the generator is made
\* from the seed, whatever generator existed before
default_rng_ambient(seed, ambient) == ambient
default_rng(seed, ambient) == seed % RngModulus

\* the generator the replication of index i draws from, lines 211-221: the
\* one generator of the run, where the draws before left it
replication_rng_reseeded(gen, seed, i) == (seed + i) % RngModulus
replication_rng(gen, seed, i) == gen

\* gen.shuffle(fixtures): Fisher-Yates from the last place down, one draw per
\* place; returns [seq, gen, draws]
RECURSIVE shuffle(_, _, _)
shuffle(seq, gen, i) ==
    IF i <= 1 THEN [seq |-> seq, rng |-> gen, draws |-> 0]
    ELSE LET r == NextRng(gen)
             j == 1 + ((r * i) \div RngModulus)
             swapped == [seq EXCEPT ![i] = seq[j], ![j] = seq[i]]
             rest == shuffle(swapped, r, i - 1)
         IN  [rest EXCEPT !.draws = @ + 1]

\* gen.choice(["H", "D", "A"], p=[...]): the first class whose cumulated
\* probability is above a uniform draw; returns [result, gen]
choice(probs, gen) ==
    LET r == NextRng(gen)
        u == (r * PointScale) \div RngModulus
    IN  [result |-> IF u < probs.H THEN "H"
                    ELSE IF u < probs.H + probs.D THEN "D"
                    ELSE "A",
         rng |-> r]

\* ---- objects: the dataclass instances, their deques and the tbl rows
\* live in a store, the dicts hold their addresses
EmptyStore == [st |-> <<>>, dq |-> <<>>, tb |-> <<>>]
DequeAddr(a, field) == <<a[1], a[2], field>>

\* the state at address a with the content of its deques
Load(M, a) ==
    [M.st[a] EXCEPT !.recent_points = M.dq[@], !.recent_goal_diff = M.dq[@]]

\* the fields of v written through the references of the state at a
Store(M, a, v) ==
    LET o == M.st[a]
    IN  [M EXCEPT
            !.st[a] = [v EXCEPT !.recent_points = o.recent_points,
                                !.recent_goal_diff = o.recent_goal_diff],
            !.dq = [d \in DOMAIN M.dq |->
                      IF d = o.recent_goal_diff THEN v.recent_goal_diff
                      ELSE IF d = o.recent_points THEN v.recent_points
                      ELSE M.dq[d]]]

\* SimTeamState() and a tbl row, new objects owned by `owner`, lines 92-93
NewTeam(M, owner, t) ==
    LET a == <<owner, t>>
    IN  [st |-> (a :> [TeamState EXCEPT !.recent_points = DequeAddr(a, "recent_points"),
                                        !.recent_goal_diff = DequeAddr(a, "recent_goal_diff")])
                 @@ M.st,
         dq |-> (DequeAddr(a, "recent_points") :> <<>>)
                 @@ (DequeAddr(a, "recent_goal_diff") :> <<>>) @@ M.dq,
         tb |-> (a :> [points |-> 0, gf |-> 0, ga |-> 0, gd |-> 0, played |-> 0]) @@ M.tb]

\* copy.deepcopy of the two dicts, lines 212-213: every state, deque and
\* tbl row is a new object with the same content; returns [M, sts, tbl]
copy_sharing_deques(M, sts, tbl) ==
    LET ts == DOMAIN sts
        New(t) == <<"rep", t>>
    IN  [M |-> [st |-> [a \in {New(t) : t \in ts} |-> M.st[sts[a[2]]]] @@ M.st,
                dq |-> M.dq,
                tb |-> [a \in {New(t) : t \in ts} |-> M.tb[tbl[a[2]]]] @@ M.tb],
         states |-> [t \in ts |-> New(t)],
         table |-> [t \in ts |-> New(t)]]
deepcopy(M, sts, tbl) ==
    LET ts == DOMAIN sts
        New(t) == <<"rep", t>>
        Fields == {"recent_points", "recent_goal_diff"}
    IN  [M |-> [st |-> [a \in {New(t) : t \in ts} |->
                          [M.st[sts[a[2]]] EXCEPT
                              !.recent_points = DequeAddr(a, "recent_points"),
                              !.recent_goal_diff = DequeAddr(a, "recent_goal_diff")]]
                       @@ M.st,
                dq |-> [d \in {DequeAddr(New(t), f) : t \in ts, f \in Fields} |->
                          M.dq[M.st[sts[d[2]]][d[3]]]]
                       @@ M.dq,
                tb |-> [a \in {New(t) : t \in ts} |-> M.tb[tbl[a[2]]]] @@ M.tb],
         states |-> [t \in ts |-> New(t)],
         table |-> [t \in ts |-> New(t)]]

\* ---- the heuristic outcome model, lines 169-189
\* the score in 1/1000000; rests are the proxies of lines 174-175
heuristic_score_home_rested(home_state, away_state) ==
    LET home_ppg == safe_ppg(home_state.season_points, home_state.season_matches)
        away_ppg == safe_ppg(away_state.season_points, away_state.season_matches)
        home_form == safe_mean(home_state.recent_points)
        away_form == safe_mean(away_state.recent_points)
        home_rest == DEFAULT_REST_DAYS
        away_rest == IF away_state.last_match_date = NoDate
                     THEN DEFAULT_REST_DAYS ELSE PROXY_REST_DAYS
    IN  28 * (home_state.elo - away_state.elo)
        + 850 * (home_ppg - away_ppg)
        + 250 * (home_form - away_form)
        + 20000 * (home_rest - away_rest)
heuristic_score(home_state, away_state) ==
    LET home_ppg == safe_ppg(home_state.season_points, home_state.season_matches)
        away_ppg == safe_ppg(away_state.season_points, away_state.season_matches)
        home_form == safe_mean(home_state.recent_points)
        away_form == safe_mean(away_state.recent_points)
        home_rest == IF home_state.last_match_date = NoDate
                     THEN DEFAULT_REST_DAYS ELSE PROXY_REST_DAYS
        away_rest == IF away_state.last_match_date = NoDate
                     THEN DEFAULT_REST_DAYS ELSE PROXY_REST_DAYS
    IN  28 * (home_state.elo - away_state.elo)
        + 850 * (home_ppg - away_ppg)
        + 250 * (home_form - away_form)
        + 20000 * (home_rest - away_rest)

\* 1.0 / (1.0 + np.exp(-score)) in 1/10000; exp(x) is 10 ** (x / ln 10),
\* a sixteenth of ln 10 being 143912 millionths
logistic(score) ==
    (PointScale * 1000) \div (1000 + Pow10Frac(0 - score, 143912))

\* probabilities in 1/10000, lines 183-189
heuristic_probabilities_no_floor(home_state, away_state) ==
    LET score == heuristic_score(home_state, away_state)
        p_home_raw == logistic(score)
        p_draw == 2600 - (8 * Abs(score)) \div 10000
        p_home == (p_home_raw * (PointScale - p_draw)) \div PointScale
        p_away == ((PointScale - p_home_raw) * (PointScale - p_draw)) \div PointScale
        total == p_home + p_draw + p_away
    IN  [H |-> (p_home * PointScale) \div total,
         D |-> (p_draw * PointScale) \div total,
         A |-> (p_away * PointScale) \div total,
         score |-> score]
heuristic_probabilities(home_state, away_state) ==
    LET score == heuristic_score(home_state, away_state)
        p_home_raw == logistic(score)
        p_draw == Max(1400, 2600 - (8 * Abs(score)) \div 10000)
        p_home == (p_home_raw * (PointScale - p_draw)) \div PointScale
        p_away == ((PointScale - p_home_raw) * (PointScale - p_draw)) \div PointScale
        total == p_home + p_draw + p_away
    IN  [H |-> (p_home * PointScale) \div total,
         D |-> (p_draw * PointScale) \div total,
         A |-> (p_away * PointScale) \div total,
         score |-> score]

sample_score_home_always(result) == <<2, 1>>
sample_score(result) ==
    IF result = "H" THEN <<2, 1>>
    ELSE IF result = "A" THEN <<1, 2>>
    ELSE <<1, 1>>

\* simulation.py, _build_feature_row lines 129-157
build_feature_row(M, sts, home_team, away_team, match_date) ==
    FeatureRow(snapshot(Load(M, sts[home_team]), match_date),
               snapshot(Load(M, sts[away_team]), match_date))

\* _update_state(states[team], ...) on the object at a, lines 104-105 and 226-227
update_state_at(M, a, match_date, gf, ga, points) ==
    Store(M, a, update_state(Load(M, a), match_date, gf, ga, points))

StorePair(M, a, b, pair) == Store(Store(M, a, pair[1]), b, pair[2])

\* _update_elo(states[home], states[away], result), lines 106 and 228
\* the away rating is read after the home rating is written (line 87)
update_elo_at(M, a, b, result) ==
    StorePair(M, a, b,
              <<update_elo(Load(M, a), Load(M, b), result)[1],
                [Load(Store(M, a, update_elo(Load(M, a), Load(M, b), result)[1]), b)
                    EXCEPT !.elo = @ + update_elo(Load(M, a), Load(M, b), result)[2].elo
                                     - Load(M, b).elo]>>)

\* the table row at a after the lines 108-117 and 230-239 that touch it
table_add_goal_diff_late(M, a, points, gf, ga) ==
    [M EXCEPT !.tb[a] = [points |-> @.points + points,
                         gf |-> @.gf + gf,
                         ga |-> @.ga + ga,
                         gd |-> @.gf - @.ga,
                         played |-> @.played + 1]]
table_add(M, a, points, gf, ga) ==
    [M EXCEPT !.tb[a] = [points |-> @.points + points,
                         gf |-> @.gf + gf,
                         ga |-> @.ga + ga,
                         gd |-> (@.gf + gf) - (@.ga + ga),
                         played |-> @.played + 1]]

\* one match on the objects of the two teams: lines 104-117 and 226-239
apply_match(M, sts, tbl, home, away, result, hg, ag, match_date) ==
    table_add(
        table_add(
            update_elo_at(
                update_state_at(
                    update_state_at(M, sts[home], match_date, hg, ag,
                                    result_to_points(result)[1]),
                    sts[away], match_date, ag, hg, result_to_points(result)[2]),
                sts[home], sts[away], result),
            tbl[home], result_to_points(result)[1], hg, ag),
        tbl[away], result_to_points(result)[2], ag, hg)

\* ---- the cleaned history: the rows clean_matches can hand over, in its order
\* (league, season, date, home), dates in days
SimRow(l, y, d, h, a, r, hg, ag) ==
    [league_code |-> l, season_start_year |-> y, match_date |-> d,
     home_team |-> h, away_team |-> a, full_time_result |-> r,
     home_goals |-> hg, away_goals |-> ag]

SimRowPool ==
    << SimRow(1, 1, 1, 1, 3, "H", 1, 0),
       SimRow(1, 2, 2, 1, 2, "H", 2, 0),
       SimRow(1, 2, 3, 2, 3, "D", 1, 1),
       SimRow(1, 2, 4, 3, 1, "A", 0, 1),
       SimRow(1, 2, 5, 3, 2, "H", 3, 2),
       SimRow(2, 2, 2, 1, 2, "H", 2, 0),
       SimRow(2, 2, 3, 2, 3, "A", 0, 2),
       SimRow(3, 2, 2, 1, 1, "D", 1, 1) >>

\* the rows of the pool at the places S, in the pool's order
SelectRows(S) == [i \in 1..Cardinality(S) |-> SimRowPool[Ascending(S)[i]]]

\* line 269-270: the rows of the latest season
latest_df(df) ==
    LET latest_year == CHOOSE y \in {df[i].season_start_year : i \in DOMAIN df} :
                           \A i \in DOMAIN df : df[i].season_start_year <= y
        IsLatest(r) == r.season_start_year = latest_year
    IN  SelectSeq(df, IsLatest)

\* line 276-278: the block of one league, sorted by match date
season_block(df, l) ==
    LET InLeague(r) == r.league_code = l
        block == SelectSeq(latest_df(df), InLeague)
    IN  Vals(SortByKey([i \in DOMAIN block |->
                           [key |-> <<block[i].match_date>>, val |-> block[i]]]))

\* line 198 and line 91
teams_of(season_df) ==
    Ascending({season_df[i].home_team : i \in DOMAIN season_df}
              \cup {season_df[i].away_team : i \in DOMAIN season_df})

\* lines 200-202: every ordered pair of two teams, home-major, not yet played
remaining_fixtures_all(season_df) ==
    LET ts == teams_of(season_df)
        all_fixtures == Concat([h \in DOMAIN ts |-> [a \in DOMAIN ts |-> <<ts[h], ts[a]>>]])
        Open(fx) == fx[1] # fx[2]
    IN  SelectSeq(all_fixtures, Open)
remaining_fixtures(season_df) ==
    LET ts == teams_of(season_df)
        played == {<<season_df[i].home_team, season_df[i].away_team>> : i \in DOMAIN season_df}
        all_fixtures == Concat([h \in DOMAIN ts |-> [a \in DOMAIN ts |-> <<ts[h], ts[a]>>]])
        Open(fx) == fx[1] # fx[2] /\ fx \notin played
    IN  SelectSeq(all_fixtures, Open)

\* lines 95-117: the rows of the season replayed on the new objects
RECURSIVE replay_rows(_, _, _, _)
replay_rows(M, sts, tbl, rows) ==
    IF rows = <<>> THEN M
    ELSE LET row == Head(rows)
         IN  replay_rows(apply_match(M, sts, tbl, row.home_team, row.away_team,
                                     row.full_time_result, row.home_goals,
                                     row.away_goals, row.match_date),
                         sts, tbl, Tail(rows))

RECURSIVE new_teams(_, _, _)
new_teams(M, owner, ts) ==
    IF ts = <<>> THEN M ELSE new_teams(NewTeam(M, owner, Head(ts)), owner, Tail(ts))

\* _init_state_and_table, lines 90-119; returns [M, states, table]
init_state_and_table(season_df) ==
    LET ts == teams_of(season_df)
        sts == [t \in Range(ts) |-> <<"base", t>>]
        M0 == new_teams(EmptyStore, "base", ts)
    IN  [M |-> replay_rows(M0, sts, sts, season_df), states |-> sts, table |-> sts]

\* what a dict of states and a dict of table rows hold, by value
Content(M, sts, tbl) ==
    [states |-> [t \in DOMAIN sts |-> Load(M, sts[t])],
     table |-> [t \in DOMAIN tbl |-> M.tb[tbl[t]]]]

\* every address reachable from a dict of states and a dict of table rows
Objects(M, sts, tbl) ==
    [st |-> Range(sts),
     dq |-> {M.st[a].recent_points : a \in Range(sts)}
            \cup {M.st[a].recent_goal_diff : a \in Range(sts)},
     tb |-> Range(tbl)]

\* lines 242-246: sorted(teams, key=..., reverse=True), ties in the order of teams
ranking_ties_reversed(M, ts, tbl) ==
    LET rising == Vals(SortByKey([i \in DOMAIN ts |->
                     [key |-> <<M.tb[tbl[ts[i]]].points, M.tb[tbl[ts[i]]].gd,
                                M.tb[tbl[ts[i]]].gf>>,
                      val |-> ts[i]]]))
    IN  [i \in DOMAIN rising |-> rising[Len(rising) + 1 - i]]
ranking_without_goals_for(M, ts, tbl) ==
    Vals(SortByKey([i \in DOMAIN ts |->
            [key |-> <<0 - M.tb[tbl[ts[i]]].points, 0 - M.tb[tbl[ts[i]]].gd>>,
             val |-> ts[i]]]))
ranking_of(M, ts, tbl) ==
    Vals(SortByKey([i \in DOMAIN ts |->
            [key |-> <<0 - M.tb[tbl[ts[i]]].points, 0 - M.tb[tbl[ts[i]]].gd,
                       0 - M.tb[tbl[ts[i]]].gf>>,
             val |-> ts[i]]]))

\* count / n_simulations in 1/1000000, n_simulations not zero
Ratio(count, n) ==
    IF n > 0 THEN (count * 1000000) \div n ELSE 0 - ((count * 1000000) \div (0 - n))

\* lines 254-265: one row per team, by falling champion probability
league_rows_points_undivided(l, ts, champions, top3, points, n) ==
    Vals(SortByKey([i \in DOMAIN ts |->
            [key |-> <<0 - Ratio(champions[ts[i]], n)>>,
             val |-> [league_code |-> l, team |-> ts[i],
                      champion_probability |-> Ratio(champions[ts[i]], n),
                      top3_probability |-> Ratio(top3[ts[i]], n),
                      expected_points |-> points[ts[i]] * 1000000]]]))
league_rows(l, ts, champions, top3, points, n) ==
    Vals(SortByKey([i \in DOMAIN ts |->
            [key |-> <<0 - Ratio(champions[ts[i]], n)>>,
             val |-> [league_code |-> l, team |-> ts[i],
                      champion_probability |-> Ratio(champions[ts[i]], n),
                      top3_probability |-> Ratio(top3[ts[i]], n),
                      expected_points |-> Ratio(points[ts[i]], n)]]]))

\* lines 296-297: all leagues, by league and falling champion probability
final_table_ascending(outputs) ==
    LET all == Concat(outputs)
    IN  Vals(SortByKey([i \in DOMAIN all |->
            [key |-> <<all[i].league_code, all[i].champion_probability>>,
             val |-> all[i]]]))
final_table(outputs) ==
    LET all == Concat(outputs)
    IN  Vals(SortByKey([i \in DOMAIN all |->
            [key |-> <<all[i].league_code, 0 - all[i].champion_probability>>,
             val |-> all[i]]]))

\* ranking[:3], line 249
top_two(ranking) == {ranking[k] : k \in 1..Min(2, Len(ranking))}
top_three(ranking) == {ranking[k] : k \in 1..Min(3, Len(ranking))}
NoFixture ==
    [home |-> 0, away |-> 0, match_date |-> NoDate, row |-> <<>>, score |-> 0,
     home_last |-> NoDate, away_last |-> NoDate, result |-> "D",
     probs |-> <<>>, pre |-> <<>>, post |-> <<>>]
NoRun == [status |-> "none", final_df |-> <<>>, league_outputs |-> <<>>, files |-> {}]

SimLeagueIdle ==
    /\ league_code = 0
    /\ teams = <<>>
    /\ remaining = <<>>
    /\ store = EmptyStore
    /\ base_states = <<>>
    /\ base_table = <<>>
    /\ last_date = NoDate
    /\ champion_count = <<>>
    /\ top3_count = <<>>
    /\ points_sum = <<>>
    /\ rep_i = 0
    /\ states = <<>>
    /\ table = <<>>
    /\ fixtures = <<>>
    /\ fix_i = 0
    /\ current_date = NoDate
    /\ base_snapshot = <<>>

SimRunIdle ==
    /\ run_no = 1
    /\ rng = 0
    /\ groups = <<>>
    /\ league_outputs = <<>>
    /\ final_df = <<>>
    /\ files = {}
    /\ error = "none"
    /\ rep_log = <<>>
    /\ rep_trace = <<>>
    /\ rank_log = <<>>
    /\ last_fx = NoFixture
    /\ prev_run = NoRun

\* a call of run_champion_simulation about to start
SimInit ==
    /\ \E S \in SUBSET DOMAIN SimRowPool :
          /\ Cardinality(S) <= MaxPlayed
          /\ df_clean = SelectRows(S)
    /\ n_simulations \in (0 - 1)..MaxSims
    /\ random_state \in Seeds
    /\ sim_pc = "start"
    /\ SimRunIdle
    /\ SimLeagueIdle

SimIdle ==
    /\ df_clean = <<>>
    /\ n_simulations = 0
    /\ random_state = 0
    /\ sim_pc = "idle"
    /\ SimRunIdle
    /\ SimLeagueIdle

\* lines 269-275; int() of the maximum of no rows raises
SimStartUnchecked ==
    /\ sim_pc = "start"
    /\ sim_pc' = "league"
    /\ rng' = default_rng(random_state, rng)
    /\ groups' = IF df_clean = <<>> THEN <<>>
                 ELSE Ascending({latest_df(df_clean)[i].league_code :
                                   i \in DOMAIN latest_df(df_clean)})
    /\ league_outputs' = <<>>
    /\ UNCHANGED <<simInputs, run_no, final_df, files, error, simLeague, simRep, simGhost,
                   engVars, rpVars, bldVars, ingVars>>
SimStart ==
    /\ sim_pc = "start"
    /\ IF df_clean = <<>>
       THEN /\ sim_pc' = "failed"
            /\ error' = "ValueError"
            /\ UNCHANGED <<rng, groups, league_outputs>>
       ELSE /\ sim_pc' = "league"
            /\ rng' = default_rng(random_state, rng)
            /\ groups' = Ascending({latest_df(df_clean)[i].league_code :
                                      i \in DOMAIN latest_df(df_clean)})
            /\ league_outputs' = <<>>
            /\ UNCHANGED error
    /\ UNCHANGED <<simInputs, run_no, final_df, files, simLeague, simRep, simGhost,
                   engVars, rpVars, bldVars, ingVars>>

\* lines 276-281 and 197-209: the next league's frame
LeagueStart ==
    /\ sim_pc = "league"
    /\ groups # <<>>
    /\ LET season_df == season_block(df_clean, Head(groups))
           init == init_state_and_table(season_df)
           ts == teams_of(season_df)
       IN  /\ league_code' = Head(groups)
           /\ groups' = Tail(groups)
           /\ teams' = ts
           /\ remaining' = remaining_fixtures(season_df)
           /\ store' = init.M
           /\ base_states' = init.states
           /\ base_table' = init.table
           /\ last_date' = season_df[Len(season_df)].match_date
           /\ champion_count' = [t \in Range(ts) |-> 0]
           /\ top3_count' = [t \in Range(ts) |-> 0]
           /\ points_sum' = [t \in Range(ts) |-> 0]
           /\ base_snapshot' = Content(init.M, init.states, init.table)
    /\ rep_i' = 0
    /\ sim_pc' = "rep"
    /\ UNCHANGED <<simInputs, run_no, rng, league_outputs, final_df, files, error,
                   simRep, rep_log, last_fx, prev_run, rep_trace, rank_log,
                   engVars, rpVars, bldVars, ingVars>>

\* lines 211-216: the copies, the shuffled fixtures, the first date
StartReplication ==
    /\ sim_pc = "rep"
    /\ rep_i < n_simulations
    /\ LET c == deepcopy(store, base_states, base_table)
           g == replication_rng(rng, random_state, rep_i)
           sh == shuffle(remaining, g, Len(remaining))
       IN  /\ store' = c.M
           /\ states' = c.states
           /\ table' = c.table
           /\ fixtures' = sh.seq
           /\ rng' = sh.rng
           /\ rep_log' = Append(rep_log, [league |-> league_code, i |-> rep_i, rng |-> g,
                                          fixtures |-> Len(remaining)])
    /\ current_date' = last_date + FIXTURE_GAP_DAYS
    /\ fix_i' = 0
    /\ rep_trace' = <<>>
    /\ sim_pc' = "fixture"
    /\ UNCHANGED <<simInputs, run_no, groups, league_outputs, final_df, files, error,
                   league_code, teams, remaining, base_states, base_table, last_date,
                   champion_count, top3_count, points_sum, rep_i,
                   base_snapshot, last_fx, prev_run, rank_log, engVars, rpVars, bldVars, ingVars>>

\* lines 218-240: one fixture of the replication
SimFixture ==
    /\ sim_pc = "fixture"
    /\ fix_i < Len(fixtures)
    /\ LET home == fixtures[fix_i + 1][1]
           away == fixtures[fix_i + 1][2]
           row == build_feature_row(store, states, home, away, current_date)
           probs == heuristic_probabilities(Load(store, states[home]),
                                            Load(store, states[away]))
           drawn == choice(probs, rng)
           goals == sample_score(drawn.result)
       IN  /\ rng' = drawn.rng
           /\ store' = apply_match(store, states, table, home, away, drawn.result,
                                   goals[1], goals[2], current_date)
           /\ last_fx' = [home |-> home, away |-> away, match_date |-> current_date,
                          row |-> row, score |-> probs.score,
                          home_last |-> Load(store, states[home]).last_match_date,
                          away_last |-> Load(store, states[away]).last_match_date,
                          result |-> drawn.result,
                          probs |-> [H |-> probs.H, D |-> probs.D, A |-> probs.A],
                          pre |-> Content(store, states, table),
                          post |-> Content(apply_match(store, states, table, home, away,
                                                       drawn.result, goals[1], goals[2],
                                                       current_date),
                                           states, table)]
           /\ rep_trace' = Append(rep_trace, <<home, away>>)
    /\ current_date' = current_date + FIXTURE_GAP_DAYS
    /\ fix_i' = fix_i + 1
    /\ UNCHANGED <<simInputs, sim_pc, run_no, groups, league_outputs, final_df, files,
                   error, league_code, teams, remaining, base_states, base_table,
                   last_date, champion_count, top3_count, points_sum, rep_i,
                   states, table, fixtures, base_snapshot, rep_log, prev_run, rank_log,
                   engVars, rpVars, bldVars, ingVars>>

\* lines 242-252: the replication's ranking added to the tallies
EndReplication ==
    /\ sim_pc = "fixture"
    /\ fix_i = Len(fixtures)
    /\ LET ranking == ranking_of(store, teams, table)
           top == top_three(ranking)
       IN  /\ champion_count' = [champion_count EXCEPT ![ranking[1]] = @ + 1]
           /\ top3_count' = [t \in DOMAIN top3_count |->
                               IF t \in top THEN top3_count[t] + 1 ELSE top3_count[t]]
           /\ points_sum' = [t \in DOMAIN points_sum |->
                               points_sum[t] + store.tb[table[t]].points]
           /\ rank_log' = Append(rank_log,
                                 [league |-> league_code, ranking |-> ranking,
                                  table |-> [t \in DOMAIN table |-> store.tb[table[t]]]])
    /\ rep_i' = rep_i + 1
    /\ sim_pc' = "rep"
    /\ UNCHANGED <<simInputs, run_no, rng, groups, league_outputs, final_df, files, error,
                   league_code, teams, remaining, store, base_states, base_table,
                   last_date, simRep, base_snapshot, rep_log, last_fx, prev_run,
                   rep_trace, engVars, rpVars, bldVars, ingVars>>

\* lines 254-265 and 282-294: the league's rows and its plot; the division
\* by n_simulations raises when it is zero
LeagueEnd ==
    /\ sim_pc = "rep"
    /\ ~(rep_i < n_simulations)
    /\ IF n_simulations = 0
       THEN /\ sim_pc' = "failed"
            /\ error' = "ZeroDivisionError"
            /\ UNCHANGED <<league_outputs, files>>
       ELSE /\ league_outputs' = Append(league_outputs,
                                        league_rows(league_code, teams, champion_count,
                                                    top3_count, points_sum, n_simulations))
            /\ files' = files \cup {<<"champion_probability.png", league_code>>}
            /\ sim_pc' = IF groups = <<>> THEN "final" ELSE "league"
            /\ UNCHANGED error
    /\ UNCHANGED <<simInputs, run_no, rng, groups, final_df, simLeague, simRep,
                   simGhost, engVars, rpVars, bldVars, ingVars>>

\* lines 296-317: the final table, its CSV and the report
SimFinish ==
    /\ sim_pc = "final"
    /\ final_df' = final_table(league_outputs)
    /\ files' = files \cup {<<"champion_probabilities.csv", 0>>,
                            <<"champion_probabilities.md", 0>>}
    /\ sim_pc' = "done"
    /\ UNCHANGED <<simInputs, run_no, rng, groups, league_outputs, error, simLeague,
                   simRep, simGhost, engVars, rpVars, bldVars, ingVars>>

\* the run is cancelled while _league_simulation (lines 278-282) is at work:
\* KeyboardInterrupt leaves run_champion_simulation, which has no handler and
\* removes nothing it has written
Cancel ==
    /\ sim_pc \in {"rep", "fixture"}
    /\ sim_pc' = "failed"
    /\ error' = "KeyboardInterrupt"
    /\ UNCHANGED <<simInputs, run_no, rng, groups, league_outputs, final_df, files,
                   simLeague, simRep, simGhost, engVars, rpVars, bldVars, ingVars>>

\* the same call made a second time in the same process
Rerun ==
    /\ sim_pc \in {"done", "failed"}
    /\ run_no = 1
    /\ run_no' = 2
    /\ prev_run' = [status |-> IF sim_pc = "done" THEN "done" ELSE error,
                    final_df |-> final_df, league_outputs |-> league_outputs,
                    files |-> files]
    /\ sim_pc' = "start"
    /\ groups' = <<>>
    /\ league_outputs' = <<>>
    /\ final_df' = <<>>
    /\ error' = "none"
    /\ rep_log' = <<>>
    /\ rep_trace' = <<>>
    /\ rank_log' = <<>>
    /\ last_fx' = NoFixture
    /\ league_code' = 0
    /\ teams' = <<>>
    /\ remaining' = <<>>
    /\ store' = EmptyStore
    /\ base_states' = <<>>
    /\ base_table' = <<>>
    /\ last_date' = NoDate
    /\ champion_count' = <<>>
    /\ top3_count' = <<>>
    /\ points_sum' = <<>>
    /\ rep_i' = 0
    /\ states' = <<>>
    /\ table' = <<>>
    /\ fixtures' = <<>>
    /\ fix_i' = 0
    /\ current_date' = NoDate
    /\ base_snapshot' = <<>>
    /\ UNCHANGED <<simInputs, rng, files, engVars, rpVars, bldVars, ingVars>>

SimNext ==
    \/ SimStart
    \/ LeagueStart
    \/ StartReplication
    \/ SimFixture
    \/ EndReplication
    \/ LeagueEnd
    \/ SimFinish
    \/ Cancel
    \/ Rerun


\* ================== the frame of the features handed to simulator and service
\* a row of the frame with the columns the simulator reads
AsSimRow(row) ==
    SimRow(row.league_code, row.season_start_year, row.match_date, row.home_team,
           row.away_team, row.result, row.home_goals, row.away_goals)

\* simulation.py lines 269-278 and 209: the base states of league l, by value;
\* a league without rows in the latest year of the frame is not simulated
sim_latest_states(hist, l) ==
    LET df == [i \in DOMAIN hist |-> AsSimRow(hist[i])]
        block == season_block(df, l)
    IN  IF block = <<>> THEN EmptyDict
        ELSE Content(init_state_and_table(block).M,
                     init_state_and_table(block).states,
                     init_state_and_table(block).table).states
\* the frame the features were built from is handed to the simulator and to
\* the live service, which build their states from its latest season
LoadLatestStates ==
    /\ rp_pc = "done"
    /\ rp_hist # <<>>
    /\ latest_states' =
          [sim |-> [l \in Leagues |-> sim_latest_states(rp_hist, l)],
           live |-> [l \in Leagues |-> build_latest_states(rp_hist, l)]]
    /\ rp_pc' = "loaded"
    /\ UNCHANGED <<rp_hist, league_states, current_season, all_rows, features_df, rp_resets,
                   engVars, simVars, bldVars, ingVars>>

ReplayNext == ProcessMatch \/ ReplayFinish \/ LoadLatestStates

\* ===================================== the feature row builders, called alone
\* each returns [status, states, row]: the outcome, the dict after the call
\* and the feature columns

\* features.py, lines 105-109 and 111-146: the states are looked up with
\* setdefault
feat_build_feature_row(sts, home_team, away_team, match_date) ==
    [status |-> "ok",
     states |-> setdefault(setdefault(sts, home_team), away_team),
     row |-> FeatureRow(
                snapshot(setdefault(sts, home_team)[home_team], match_date),
                snapshot(setdefault(setdefault(sts, home_team), away_team)[away_team],
                         match_date))]

\* simulation.py, _build_feature_row lines 120-157: states[home_team] and
\* states[away_team] raise KeyError for a key the dict does not hold
sim_build_feature_row_stamping(sts, home_team, away_team, match_date) ==
    IF home_team \notin DOMAIN sts \/ away_team \notin DOMAIN sts
    THEN [status |-> "KeyError", states |-> sts, row |-> <<>>]
    ELSE [status |-> "ok",
          states |-> [sts EXCEPT ![home_team].last_match_date = match_date],
          row |-> FeatureRow(snapshot(sts[home_team], match_date),
                             snapshot(sts[away_team], match_date))]
sim_build_feature_row(sts, home_team, away_team, match_date) ==
    IF home_team \notin DOMAIN sts \/ away_team \notin DOMAIN sts
    THEN [status |-> "KeyError", states |-> sts, row |-> <<>>]
    ELSE [status |-> "ok", states |-> sts,
          row |-> FeatureRow(snapshot(sts[home_team], match_date),
                             snapshot(sts[away_team], match_date))]

\* prediction_service.py, _build_feature_row lines 181-219: setdefault
live_build_feature_row_strict(sts, home_team, away_team, match_date) ==
    sim_build_feature_row(sts, home_team, away_team, match_date)
live_build_feature_row(sts, home_team, away_team, match_date) ==
    [status |-> "ok",
     states |-> setdefault(setdefault(sts, home_team), away_team),
     row |-> FeatureRow(
                snapshot(setdefault(sts, home_team)[home_team], match_date),
                snapshot(setdefault(setdefault(sts, home_team), away_team)[away_team],
                         match_date))]

NoCall == [status |-> "none", home_team |-> 0, away_team |-> 0, match_date |-> NoDate,
           pre |-> EmptyDict, post |-> EmptyDict, row |-> <<>>]

BuilderMatch(result, d) ==
    [result |-> result, home_goals |-> ScoreOf(result)[1],
     away_goals |-> ScoreOf(result)[2], match_date |-> d]

\* the replay starts from an empty dict (features.py line 91); the simulator
\* and the live service from a default state per team of the season
\* (simulation.py line 92, prediction_service.py lines 129-130)
BuilderInit ==
    /\ bld_kind \in Engines
    /\ \E S \in SUBSET Teams :
          /\ IF bld_kind = "feat" THEN S = {} ELSE Cardinality(S) >= 2
          /\ bld_states = [t \in S |-> TeamState]
    /\ bld_out = NoCall
    /\ bld_n = 0

BuilderIdle ==
    /\ bld_kind = "idle"
    /\ bld_states = EmptyDict
    /\ bld_out = NoCall
    /\ bld_n = 0

\* features.py, one iteration of the loop of line 94 within a season: the row
\* is built from the states before the match, then the match is applied
FeatRow ==
    /\ bld_kind = "feat"
    /\ bld_n < MaxBuilderSteps
    /\ \E h \in Teams, a \in Teams, result \in Results :
          /\ h # a
          /\ LET built == feat_build_feature_row(bld_states, h, a, bld_n + 1)
                 upd == FeatUpdate(<<built.states[h], built.states[a]>>,
                                   BuilderMatch(result, bld_n + 1))
             IN  /\ bld_states' = [built.states EXCEPT ![h] = upd[1], ![a] = upd[2]]
                 /\ bld_out' = [status |-> built.status, home_team |-> h, away_team |-> a,
                                match_date |-> bld_n + 1, pre |-> bld_states,
                                post |-> built.states,
                                row |-> built.row]
    /\ bld_n' = bld_n + 1
    /\ UNCHANGED <<bld_kind, engVars, rpVars, simVars, ingVars>>

\* a played match between two teams of the dict: simulation.py lines 95-106,
\* prediction_service.py lines 132-162
HistoryRow ==
    /\ bld_kind \in {"sim", "live"}
    /\ bld_n < MaxBuilderSteps
    /\ \E h \in DOMAIN bld_states, a \in DOMAIN bld_states, result \in Results :
          /\ h # a
          /\ LET pre == <<bld_states[h], bld_states[a]>>
                 upd == IF bld_kind = "sim"
                        THEN SimUpdate(pre, BuilderMatch(result, bld_n + 1))
                        ELSE LiveUpdate(pre, BuilderMatch(result, bld_n + 1))
             IN  bld_states' = [bld_states EXCEPT ![h] = upd[1], ![a] = upd[2]]
    /\ bld_n' = bld_n + 1
    /\ UNCHANGED <<bld_kind, bld_out, engVars, rpVars, simVars, ingVars>>

\* simulation.py, _build_feature_row called for two teams
SimBuild ==
    /\ bld_kind = "sim"
    /\ bld_n < MaxBuilderSteps
    /\ \E h \in Teams, a \in Teams :
          /\ h # a
          /\ LET built == sim_build_feature_row(bld_states, h, a, bld_n + 1)
             IN  /\ bld_states' = built.states
                 /\ bld_out' = [status |-> built.status, home_team |-> h, away_team |-> a,
                                match_date |-> bld_n + 1, pre |-> bld_states,
                                post |-> built.states,
                                row |-> built.row]
    /\ bld_n' = bld_n + 1
    /\ UNCHANGED <<bld_kind, engVars, rpVars, simVars, ingVars>>

\* prediction_service.py, _build_feature_row called for two teams: predict
\* (lines 717-723) passes the date the caller asked for, pd.to_datetime of any
\* date string, or a date after the last match when none is given
LiveBuild ==
    /\ bld_kind = "live"
    /\ bld_n < MaxBuilderSteps
    /\ \E h \in Teams, a \in Teams, date \in 0..(bld_n + 1) :
          /\ h # a
          /\ LET built == live_build_feature_row(bld_states, h, a, date)
             IN  /\ bld_states' = built.states
                 /\ bld_out' = [status |-> built.status, home_team |-> h, away_team |-> a,
                                match_date |-> date, pre |-> bld_states,
                                post |-> built.states,
                                row |-> built.row]
    /\ bld_n' = bld_n + 1
    /\ UNCHANGED <<bld_kind, engVars, rpVars, simVars, ingVars>>

BuilderNext == FeatRow \/ HistoryRow \/ SimBuild \/ LiveBuild


\* ============================================ _read_league_files (ingestion.py)
\* A string is a sequence of characters; a season code is the stem of a file
\* name season-<code>.csv.
Digits == {"0", "9"}
Chars == Digits \cup {" ", "x"}
DigitVal(c) == IF c = "9" THEN 9 ELSE 0
Strings == UNION {[1..n -> Chars] : n \in 0..MaxCodeLen}
NoYear == -1

\* str.strip(): the blanks at both ends dropped
RECURSIVE lstrip(_)
lstrip(str) == IF str # <<>> /\ Head(str) = " " THEN lstrip(Tail(str)) ELSE str
RECURSIVE rstrip(_)
rstrip(str) ==
    IF str # <<>> /\ str[Len(str)] = " " THEN rstrip(SubSeq(str, 1, Len(str) - 1)) ELSE str
strip(str) == lstrip(rstrip(str))

\* str.isdigit(): not empty and digits only
isdigit(str) == str # <<>> /\ \A i \in DOMAIN str : str[i] \in Digits

\* utils.py, season_code_to_start_year lines 7-16; returns [status, year]
season_code_to_start_year_defaulting(code_in) ==
    LET code == strip(code_in)
    IN  IF Len(code) # 4 \/ ~isdigit(code)
        THEN [status |-> "ok", year |-> 2000]
        ELSE LET first_two == 10 * DigitVal(code[1]) + DigitVal(code[2])
             IN  [status |-> "ok",
                  year |-> IF first_two >= 90 THEN 1900 + first_two ELSE 2000 + first_two]
season_code_to_start_year(code_in) ==
    LET code == strip(code_in)
    IN  IF Len(code) # 4 \/ ~isdigit(code)
        THEN [status |-> "ValueError", year |-> NoYear]
        ELSE LET first_two == 10 * DigitVal(code[1]) + DigitVal(code[2])
             IN  [status |-> "ok",
                  year |-> IF first_two >= 90 THEN 1900 + first_two ELSE 2000 + first_two]

\* a league folder about to be read, lines 37-43
IngestInit ==
    /\ ing_pc = "loop"
    /\ season_code = <<>>
    /\ start_year = NoYear
    /\ records = <<>>
    /\ ing_error = "none"

IngestIdle ==
    /\ ing_pc = "idle"
    /\ season_code = <<>>
    /\ start_year = NoYear
    /\ records = <<>>
    /\ ing_error = "none"

\* one iteration of the loop of line 44: the block of the file gets the year
\* of its code (lines 45-58), or the error of the parser leaves the function
ReadSeasonFile ==
    /\ ing_pc = "loop"
    /\ Len(records) < MaxFiles
    /\ \E code \in Strings :
          LET parsed == season_code_to_start_year(code)
          IN  /\ season_code' = code
              /\ start_year' = parsed.year
              /\ IF parsed.status = "ok"
                 THEN /\ records' = Append(records, parsed.year)
                      /\ UNCHANGED <<ing_pc, ing_error>>
                 ELSE /\ ing_pc' = "failed"
                      /\ ing_error' = parsed.status
                      /\ UNCHANGED records
    /\ UNCHANGED <<engVars, rpVars, simVars, bldVars>>

\* line 60: the blocks concatenated and returned
IngestFinish ==
    /\ ing_pc = "loop"
    /\ records # <<>>
    /\ ing_pc' = "done"
    /\ UNCHANGED <<season_code, start_year, records, ing_error,
                   engVars, rpVars, simVars, bldVars>>

IngestNext == ReadSeasonFile \/ IngestFinish

\* ============================================================ specifications
InitEngines == EngineInit /\ ReplayIdle /\ SimIdle /\ BuilderIdle /\ IngestIdle
InitReplay == ReplayInit /\ EngineIdle /\ SimIdle /\ BuilderIdle /\ IngestIdle
InitSim == SimInit /\ EngineIdle /\ ReplayIdle /\ BuilderIdle /\ IngestIdle
InitBuilders == BuilderInit /\ EngineIdle /\ ReplayIdle /\ SimIdle /\ IngestIdle
InitIngest == IngestInit /\ EngineIdle /\ ReplayIdle /\ SimIdle /\ BuilderIdle

SpecEngines == InitEngines /\ [][EngineNext]_vars
SpecReplay == InitReplay /\ [][ReplayNext]_vars
SpecSim == InitSim /\ [][SimNext]_vars
SpecBuilders == InitBuilders /\ [][BuilderNext]_vars
SpecIngest == InitIngest /\ [][IngestNext]_vars

\* ------------------------------------------------------------ claims
\* C2: for every processed match, in each engine, the home Elo delta is
\* K*(actualHome - expectedHome) with K = 20 and expectedHome taken with home
\* advantage 60 from the two pre-match ratings, and the away delta is its
\* negation: homeEloDelta + awayEloDelta = 0.
C2_EloZeroSum ==
    eng_last = "match" =>
        \A e \in Engines :
            LET home == eng_home
                away == 3 - eng_home
                dh == eng_post[e][home].elo - eng_pre[home].elo
                da == eng_post[e][away].elo - eng_pre[away].elo
                d == eng_pre[away].elo - (eng_pre[home].elo + 60 * EloScale)
                expected == (ProbScale * 1000) \div (1000 + Pow10Frac(d, 25 * EloScale))
                actual == CASE eng_match.result = "H" -> ProbScale
                            [] eng_match.result = "D" -> ProbScale \div 2
                            [] OTHER -> 0
            IN  /\ dh + da = 0
                /\ dh = (20 * (actual - expected) * EloScale) \div ProbScale

\* a match moved both ratings, after ratings that already differed
C2_Witness ==
    /\ eng_last = "match"
    /\ eng_n >= 3
    /\ eng_post.sim[eng_home].elo # eng_pre[eng_home].elo
    /\ eng_post.feat[1].elo # eng_post.feat[2].elo

\* C3: from the same pre-match states and the same match, the historical
\* replay, the simulator and the live service produce field-for-field equal
\* post-match states.
C3_EnginesAgree ==
    /\ eng_post.feat = eng_post.sim
    /\ eng_post.sim = eng_post.live

\* a match applied to states whose windows were already full
C3_Witness ==
    /\ eng_last = "match"
    /\ Len(eng_pre[1].recent_points) = 5
    /\ eng_post.feat[1] # eng_pre[1]
    /\ eng_post.feat[2] # eng_pre[2]

\* C7: a season reset turns Elo into 0.75*elo + 0.25*1500 (1700.0 into
\* 1650.0), zeroes matches, points, goals for and against, empties both
\* windows and clears the last-match date.
C7_SeasonRegression ==
    eng_last = "reset" =>
        \A e \in Engines : \A i \in 1..2 :
            LET before == eng_pre[i]
                after == eng_post[e][i]
            IN  /\ after.elo = (75 * before.elo + 25 * 1500 * EloScale) \div 100
                /\ (before.elo = 1700 * EloScale => after.elo = 1650 * EloScale)
                /\ after.season_matches = 0
                /\ after.season_points = 0
                /\ after.season_goals_for = 0
                /\ after.season_goals_against = 0
                /\ after.recent_points = <<>>
                /\ after.recent_goal_diff = <<>>
                /\ after.last_match_date = NoDate

\* a reset of a team that has played, whose rating is not 1500
C7_Witness ==
    /\ eng_last = "reset"
    /\ eng_pre[1].season_matches > 0
    /\ eng_pre[1].recent_points # <<>>
    /\ eng_pre[1].elo # 1500 * EloScale
    /\ eng_post.feat[1].elo # 1500 * EloScale

\* C9: each window holds at most 5 entries and equals the last min(5, n)
\* results pushed since the last reset, in order.
C9_WindowsBounded ==
    \A e \in Engines : \A i \in 1..2 :
        LET st == eng_post[e][i]
        IN  /\ Len(st.recent_points) <= 5
            /\ Len(st.recent_goal_diff) <= 5
            /\ st.recent_points = LastN(eng_log[i].points, 5)
            /\ st.recent_goal_diff = LastN(eng_log[i].goal_diff, 5)

\* a 6th result was pushed and the oldest one was evicted
C9_Witness ==
    /\ Len(eng_log[1].points) = 6
    /\ Len(eng_post.sim[1].recent_points) = 5
    /\ Head(eng_post.sim[1].recent_points) = eng_log[1].points[2]
    /\ eng_log[1].points[1] # eng_log[1].points[2]

\* ---- what a row may depend on, read off the rows before it
\* the row before row j in j's league (0 if none)
PrevInLeague(hist, j) ==
    LET before == {k \in 1..(j - 1) : hist[k].league_code = hist[j].league_code}
    IN  IF before = {} THEN 0 ELSE CHOOSE k \in before : \A k2 \in before : k2 <= k

\* row j opens a season of its league
OpensSeason(hist, j) ==
    LET k == PrevInLeague(hist, j)
    IN  k = 0 \/ hist[k].season_code # hist[j].season_code

Plays(row, t) == t = row.home_team \/ t = row.away_team

\* t played in league l in one of the first n rows
Appeared(hist, n, l, t) ==
    \E j \in 1..n : hist[j].league_code = l /\ Plays(hist[j], t)

\* the rows before row i of i's league and season in which t played
SeasonRowsOf(hist, i, t) ==
    {j \in 1..(i - 1) : /\ hist[j].league_code = hist[i].league_code
                        /\ hist[j].season_code = hist[i].season_code
                        /\ Plays(hist[j], t)}

RefPoints(row, t) ==
    CASE row.result = "D" -> 1
      [] row.result = "H" -> IF t = row.home_team THEN 3 ELSE 0
      [] OTHER -> IF t = row.away_team THEN 3 ELSE 0
RefGoalsFor(row, t) == IF t = row.home_team THEN row.home_goals ELSE row.away_goals
RefGoalsAgainst(row, t) == IF t = row.home_team THEN row.away_goals ELSE row.home_goals

\* the ratings in league l after the first n rows; when pre, the ratings
\* row n's snapshots see
RECURSIVE RefElo(_, _, _, _)
RefElo(hist, n, l, pre) ==
    IF n = 0 THEN [t \in Teams |-> 1500 * EloScale]
    ELSE IF hist[n].league_code # l THEN RefElo(hist, n - 1, l, FALSE)
    ELSE
        LET row == hist[n]
            prev == RefElo(hist, n - 1, l, FALSE)
            before == [t \in Teams |->
                        IF OpensSeason(hist, n) /\ Appeared(hist, n - 1, l, t)
                        THEN (75 * prev[t] + 25 * 1500 * EloScale) \div 100
                        ELSE prev[t]]
            d == before[row.away_team] - (before[row.home_team] + 60 * EloScale)
            expected == (ProbScale * 1000) \div (1000 + Pow10Frac(d, 25 * EloScale))
            actual == CASE row.result = "H" -> ProbScale
                        [] row.result = "D" -> ProbScale \div 2
                        [] OTHER -> 0
            delta == (20 * (actual - expected) * EloScale) \div ProbScale
        IN  IF pre THEN before
            ELSE [t \in Teams |->
                    IF t = row.home_team THEN before[t] + delta
                    ELSE IF t = row.away_team THEN before[t] - delta
                    ELSE before[t]]

\* the snapshot of t for row i, from the rows before i alone
RefSnapshot(hist, i, t) ==
    LET idx == Ascending(SeasonRowsOf(hist, i, t))
        n == Len(idx)
        pts == [k \in 1..n |-> RefPoints(hist[idx[k]], t)]
        gds == [k \in 1..n |-> RefGoalsFor(hist[idx[k]], t) - RefGoalsAgainst(hist[idx[k]], t)]
    IN  [elo_pre |-> RefElo(hist, i, hist[i].league_code, TRUE)[t],
         matches_played_pre |-> n,
         points_per_game_pre |-> IF n = 0 THEN 0 ELSE (SumSeq(pts) * RateScale) \div n,
         goal_diff_per_game_pre |-> IF n = 0 THEN 0 ELSE (SumSeq(gds) * RateScale) \div n,
         recent_points_avg_pre |->
            IF n = 0 THEN 0 ELSE (SumSeq(LastN(pts, 5)) * RateScale) \div Min(n, 5),
         recent_goal_diff_avg_pre |->
            IF n = 0 THEN 0 ELSE (SumSeq(LastN(gds, 5)) * RateScale) \div Min(n, 5),
         rest_days_pre |-> IF n = 0 THEN 7 ELSE hist[i].match_date - hist[idx[n]].match_date]

\* C1: the row emitted at position i is made of the two snapshots as they
\* stand after the rows before i of its league: it depends on no field of
\* row i but its league, season, teams and date, and on no later row; the
\* returned frame keeps the rows in processing order.
C1_NoLeakage ==
    /\ Len(all_rows) = Len(rp_hist)
    /\ \A i \in 1..Len(all_rows) :
          all_rows[i].feat =
              FeatureRow(RefSnapshot(rp_hist, i, rp_hist[i].home_team),
                         RefSnapshot(rp_hist, i, rp_hist[i].away_team))
    /\ rp_pc = "done" => features_df = all_rows

\* a row of two teams that both played before, with rows after it
C1_Witness ==
    /\ Len(all_rows) >= 3
    /\ all_rows[2].feat.home_matches_played_pre = 1
    /\ all_rows[2].feat.away_matches_played_pre = 1
    /\ all_rows[2].feat.elo_diff # 0
    /\ rp_pc = "done"

\* C8: within a league, _reset_for_new_season has been called on a team once
\* for every row that opens a season after the team first played, and never
\* otherwise: a known team's season counters cover exactly the rows of the
\* current season, its rating the regressions at the season changes.
C8_SeasonBoundary ==
    \A l \in Leagues :
        /\ \A t \in Teams :
              rp_resets[l][t] =
                  Cardinality({j \in 1..Len(rp_hist) :
                                 /\ rp_hist[j].league_code = l
                                 /\ OpensSeason(rp_hist, j)
                                 /\ Appeared(rp_hist, j - 1, l, t)})
        /\ \A t \in DOMAIN league_states[l] :
              /\ league_states[l][t].season_matches =
                    Cardinality({j \in 1..Len(rp_hist) :
                                   /\ rp_hist[j].league_code = l
                                   /\ rp_hist[j].season_code = current_season[l]
                                   /\ Plays(rp_hist[j], t)})
              /\ league_states[l][t].elo = RefElo(rp_hist, Len(rp_hist), l, FALSE)[t]

\* a season change regressed the known teams and not the newcomer, and the
\* next row of the same season regressed nobody
C8_Witness ==
    /\ Len(rp_hist) = 3
    /\ rp_hist[1].league_code = rp_hist[3].league_code
    /\ rp_hist[1].season_code # rp_hist[2].season_code
    /\ rp_hist[2].season_code = rp_hist[3].season_code
    /\ \E l \in Leagues : \E t1, t2 \in DOMAIN league_states[l] :
          rp_resets[l][t1] = 1 /\ rp_resets[l][t2] = 0

\* ------------------------------------------ claims on run_champion_simulation
Disjoint(A, B) == A \cap B = {}

\* C4: replication isolation.  While a league is simulated the base states,
\* their recency windows and the base table hold what _init_state_and_table
\* returned; the states and table of a replication are objects of their own,
\* none shared with the base, and hold the base's content when the
\* replication starts, whatever the replications before it did.
C4_ReplicationIsolation ==
    sim_pc \in {"rep", "fixture"} =>
        /\ Content(store, base_states, base_table) = base_snapshot
        /\ sim_pc = "fixture" =>
              /\ Disjoint(Objects(store, states, table).st,
                          Objects(store, base_states, base_table).st)
              /\ Disjoint(Objects(store, states, table).dq,
                          Objects(store, base_states, base_table).dq)
              /\ Disjoint(Objects(store, states, table).tb,
                          Objects(store, base_states, base_table).tb)
              /\ fix_i = 0 => Content(store, states, table) = base_snapshot

\* a second replication is about to start on fresh copies after the first
\* one played all its fixtures, the base holding non-empty windows
C4_Witness ==
    /\ sim_pc = "fixture"
    /\ rep_i = 1
    /\ fix_i = 0
    /\ Len(fixtures) >= 2
    /\ last_fx.home # 0
    /\ \E t \in DOMAIN base_snapshot.states : base_snapshot.states[t].recent_points # <<>>

\* C5: simulation determinism.  A second call with the same history, the same
\* n_simulations and the same seed ends as the first one did: the same
\* per-league tables and the same final table, row for row, or the same error
\* (neither call being cancelled from outside).
C5_Deterministic ==
    (run_no = 2 /\ sim_pc \in {"done", "failed"}
       /\ error # "KeyboardInterrupt" /\ prev_run.status # "KeyboardInterrupt") =>
        /\ prev_run.status = (IF sim_pc = "done" THEN "done" ELSE error)
        /\ final_df = prev_run.final_df
        /\ league_outputs = prev_run.league_outputs

\* a second run is done and its table holds a probability strictly between 0
\* and 1: the replications of the run did not all draw the same champion
C5_Witness ==
    /\ run_no = 2
    /\ sim_pc = "done"
    /\ \E k \in DOMAIN final_df :
          /\ final_df[k].champion_probability > 0
          /\ final_df[k].champion_probability < 1000000

\* the generator after n draws
RECURSIVE Iterate(_, _)
Iterate(x, n) == IF n = 0 THEN x ELSE Iterate(NextRng(x), n - 1)

\* draws of one replication over f fixtures: the shuffle's and one per fixture
DrawsOfReplication(f) == Max(f - 1, 0) + f

RECURSIVE DrawsBefore(_)
DrawsBefore(k) ==
    IF k <= 1 THEN 0
    ELSE DrawsBefore(k - 1) + DrawsOfReplication(rep_log[k - 1].fixtures)

RestProxy(last) == IF last = NoDate THEN DEFAULT_REST_DAYS ELSE PROXY_REST_DAYS

\* C10 as stated: the score of a simulated fixture is 0.0028 elo_diff + 0.85
\* ppg_diff + 0.25 recent_points_diff + 0.02 rest_days_diff of the feature
\* row built for the fixture (in 1/1000000).
C10_ScoreFromRowRest ==
    last_fx.home # 0 =>
        last_fx.score = 28 * last_fx.row.elo_diff
                        + 850 * last_fx.row.ppg_diff
                        + 250 * last_fx.row.recent_points_diff
                        + 20000 * last_fx.row.rest_days_diff

\* C10 amended: the first three terms are those of the feature row built for
\* the fixture; the rest term is 0.02 times the difference of the two teams'
\* rest proxies (7 days for a team without a match, 5 days otherwise), which
\* is zero for every simulated fixture, both teams having played.
C10_ScoreFromProxyRest ==
    last_fx.home # 0 =>
        /\ last_fx.score = 28 * last_fx.row.elo_diff
                           + 850 * last_fx.row.ppg_diff
                           + 250 * last_fx.row.recent_points_diff
                           + 20000 * (RestProxy(last_fx.home_last)
                                      - RestProxy(last_fx.away_last))
        /\ RestProxy(last_fx.home_last) = RestProxy(last_fx.away_last)

\* a simulated fixture between teams whose last matches are on different
\* days, with a score that is not zero
C10_Witness ==
    /\ last_fx.home # 0
    /\ last_fx.row.rest_days_diff # 0
    /\ last_fx.score # 0

\* max(0.14, 0.26 - 0.08 |score|) in 1/10000, the score in 1/1000000
DrawRule(score) == Max(1400, 2600 - (8 * Abs(score)) \div 10000)

\* C11: probability normalization.  The three probabilities of a simulated
\* fixture lie in [0, 1] and add up to 1 (up to the two units the three
\* roundings to 1/10000 can lose); the draw probability is
\* max(0.14, 0.26 - 0.08 |score|), between 0.14 and 0.26.
C11_ProbabilitiesNormalized ==
    last_fx.home # 0 =>
        /\ \A r \in Results : last_fx.probs[r] \in 0..PointScale
        /\ (PointScale - (last_fx.probs.H + last_fx.probs.D + last_fx.probs.A)) \in 0..2
        /\ last_fx.probs.D = DrawRule(last_fx.score)
        /\ last_fx.probs.D \in 1400..2600

\* a lopsided fixture, where the floor of 0.14 is what the draw gets, and
\* the three probabilities are all positive
C11_Witness ==
    /\ last_fx.home # 0
    /\ 2600 - (8 * Abs(last_fx.score)) \div 10000 < 1400
    /\ last_fx.probs.D = 1400
    /\ last_fx.probs.H > 0
    /\ last_fx.probs.A > 0

\* ---- the season in scope, read off the history handed to the run
ScopeRows(l) ==
    {r \in Range(df_clean) :
        /\ r.league_code = l
        /\ \A q \in Range(df_clean) : q.season_start_year <= r.season_start_year}
ScopeTeams(l) ==
    {r.home_team : r \in ScopeRows(l)} \cup {r.away_team : r \in ScopeRows(l)}
ScopeOpenPairs(l) ==
    {fx \in ScopeTeams(l) \X ScopeTeams(l) :
        /\ fx[1] # fx[2]
        /\ \A r \in ScopeRows(l) : ~(r.home_team = fx[1] /\ r.away_team = fx[2])}

\* C12: remaining fixtures.  The shuffled list of a replication holds every
\* ordered pair of distinct teams of the season that was not played as
\* (home, away), each once, and nothing else; the fixtures simulated are the
\* list's entries in its order, so at the end of the replication each
\* remaining fixture was simulated exactly once and no played pair was.
C12_RemainingFixtures ==
    sim_pc = "fixture" =>
        /\ Range(fixtures) = ScopeOpenPairs(league_code)
        /\ Len(fixtures) = Cardinality(ScopeOpenPairs(league_code))
        /\ rep_trace = SubSeq(fixtures, 1, fix_i)
        /\ fix_i = Len(fixtures) =>
              /\ Range(rep_trace) = ScopeOpenPairs(league_code)
              /\ Len(rep_trace) = Cardinality(ScopeOpenPairs(league_code))

\* a replication of a three-team league is through its fixtures, which the
\* shuffle put in another order than the list had; a pair was played one
\* way, and only its return leg was simulated
C12_Witness ==
    /\ sim_pc = "fixture"
    /\ fix_i = Len(fixtures)
    /\ Len(rep_trace) >= 4
    /\ rep_trace # remaining
    /\ \E r \in ScopeRows(league_code) :
          /\ <<r.away_team, r.home_team>> \in Range(rep_trace)
          /\ <<r.home_team, r.away_team>> \notin Range(rep_trace)

\* the state a team is left in by a match with the given goals and points
AfterMatch(state, match_date, gf, ga, points) ==
    [season_matches |-> state.season_matches + 1,
     season_points |-> state.season_points + points,
     season_goals_for |-> state.season_goals_for + gf,
     season_goals_against |-> state.season_goals_against + ga,
     recent_points |-> LastN(Append(state.recent_points, points), WINDOW_MAXLEN),
     recent_goal_diff |-> LastN(Append(state.recent_goal_diff, gf - ga), WINDOW_MAXLEN),
     last_match_date |-> match_date]

\* the fields of a state but its rating
NoElo(state) == [f \in DOMAIN state \ {"elo"} |-> state[f]]

\* the table row a team is left with by a match with the given goals and points
RowAfterMatch(entry, gf, ga, points) ==
    [points |-> entry.points + points,
     gf |-> entry.gf + gf,
     ga |-> entry.ga + ga,
     gd |-> (entry.gf + gf) - (entry.ga + ga),
     played |-> entry.played + 1]

ProxyGoals == [H |-> <<2, 1>>, D |-> <<1, 1>>, A |-> <<1, 2>>]
ResultPoints == [H |-> <<3, 0>>, D |-> <<1, 1>>, A |-> <<0, 3>>]

\* C13: per-fixture simulation step.  The sampled result is applied as the
\* score 2-1 / 1-1 / 1-2 and the points (3,0) / (1,1) / (0,3): both team
\* states and both rows of the replication's table take these values, the two
\* ratings move by opposite amounts computed from the ratings before the
\* match, no other team changes, and the fixture's probabilities are those of
\* the states before any of these updates.
C13_FixtureStep ==
    last_fx.home # 0 =>
        LET h == last_fx.home
            a == last_fx.away
            g == ProxyGoals[last_fx.result]
            p == ResultPoints[last_fx.result]
            pre == last_fx.pre
            post == last_fx.post
            expected == expected_home_sim(pre.states[h].elo, pre.states[a].elo)
            actual == IF last_fx.result = "H" THEN ProbScale
                      ELSE IF last_fx.result = "D" THEN ProbScale \div 2 ELSE 0
            before == heuristic_probabilities(pre.states[h], pre.states[a])
        IN  /\ NoElo(post.states[h]) = AfterMatch(pre.states[h], last_fx.match_date,
                                                  g[1], g[2], p[1])
            /\ NoElo(post.states[a]) = AfterMatch(pre.states[a], last_fx.match_date,
                                                  g[2], g[1], p[2])
            /\ post.states[h].elo = pre.states[h].elo + EloDelta(K_FACTOR, actual - expected)
            /\ post.states[a].elo = pre.states[a].elo - EloDelta(K_FACTOR, actual - expected)
            /\ post.table[h] = RowAfterMatch(pre.table[h], g[1], g[2], p[1])
            /\ post.table[a] = RowAfterMatch(pre.table[a], g[2], g[1], p[2])
            /\ \A t \in DOMAIN pre.states \ {h, a} :
                  /\ post.states[t] = pre.states[t]
                  /\ post.table[t] = pre.table[t]
            /\ last_fx.probs = [H |-> before.H, D |-> before.D, A |-> before.A]

\* an away win was sampled, in a league with a third team, and the states
\* after the match would have given other probabilities
C13_Witness ==
    /\ last_fx.home # 0
    /\ last_fx.result = "A"
    /\ DOMAIN last_fx.pre.states \ {last_fx.home, last_fx.away} # {}
    /\ heuristic_probabilities(last_fx.post.states[last_fx.home],
                               last_fx.post.states[last_fx.away]).H # last_fx.probs.H

\* x is better than y by points, then goal difference, then goals for
Better(x, y) ==
    \/ x.points > y.points
    \/ /\ x.points = y.points
       /\ \/ x.gd > y.gd
          \/ /\ x.gd = y.gd
             /\ x.gf > y.gf

\* C14: standings order.  In the final ranking of every replication each
\* team of the league has one place, and a team with more points, or equal
\* points and a higher goal difference, or both equal and more goals for, is
\* placed above the other.
C14_StandingsOrder ==
    \A k \in DOMAIN rank_log :
        LET e == rank_log[k]
        IN  /\ Range(e.ranking) = DOMAIN e.table
            /\ Len(e.ranking) = Cardinality(DOMAIN e.table)
            /\ \A i, j \in DOMAIN e.ranking :
                  Better(e.table[e.ranking[i]], e.table[e.ranking[j]]) => i < j

\* a finished replication in which two teams level on points and goal
\* difference were ordered by goals for, against the order of their names
C14_Witness ==
    \E k \in DOMAIN rank_log :
        LET e == rank_log[k]
        IN  \E i, j \in DOMAIN e.ranking :
               /\ i < j
               /\ e.ranking[i] > e.ranking[j]
               /\ e.table[e.ranking[i]].points = e.table[e.ranking[j]].points
               /\ e.table[e.ranking[i]].gd = e.table[e.ranking[j]].gd
               /\ e.table[e.ranking[i]].gf > e.table[e.ranking[j]].gf

\* the finished replications of league l
ReplicationsOf(l) == {k \in DOMAIN rank_log : rank_log[k].league = l}

\* the points team t ended with, added over the finished replications of l
PointsOver(l, t) ==
    SumSeq([k \in DOMAIN rank_log |->
               IF rank_log[k].league = l THEN rank_log[k].table[t].points ELSE 0])

\* count / n in 1/1000000
Fraction(count, n) == (count * 1000000) \div n

C16_SortedByProbability ==
    sim_pc = "done" =>
        \A i, j \in DOMAIN final_df :
            i < j => final_df[i].champion_probability >= final_df[j].champion_probability

\* C16 amended: the rows returned are the rows of all leagues, in the order
\* of rising league code and, within a league, of falling
\* champion_probability; the result of each league alone is in the order of
\* falling champion_probability.
C16_SortedWithinLeague ==
    /\ \A o \in DOMAIN league_outputs : \A i, j \in DOMAIN league_outputs[o] :
          i < j => league_outputs[o][i].champion_probability
                     >= league_outputs[o][j].champion_probability
    /\ sim_pc = "done" =>
          /\ Len(final_df) = Len(Concat(league_outputs))
          /\ Range(final_df) = Range(Concat(league_outputs))
          /\ \A i, j \in DOMAIN final_df :
                i < j =>
                   \/ final_df[i].league_code < final_df[j].league_code
                   \/ /\ final_df[i].league_code = final_df[j].league_code
                      /\ final_df[i].champion_probability
                           >= final_df[j].champion_probability

\* the table of a finished run of two leagues, where a row of the second
\* league has a higher champion_probability than a row above it
C16_Witness ==
    /\ sim_pc = "done"
    /\ \E i, j \in DOMAIN final_df :
          /\ i < j
          /\ final_df[i].league_code < final_df[j].league_code
          /\ final_df[i].champion_probability < final_df[j].champion_probability

\* C17 as stated: a league whose season in scope has fewer than two teams is
\* not simulated: no replication of it is ranked and no result row of it
\* is produced.
C17_FewTeamsRejected ==
    /\ \A k \in DOMAIN rank_log : Cardinality(ScopeTeams(rank_log[k].league)) >= 2
    /\ \A o \in DOMAIN league_outputs : \A x \in DOMAIN league_outputs[o] :
          Cardinality(ScopeTeams(league_outputs[o][x].league_code)) >= 2
    /\ \A x \in DOMAIN final_df : Cardinality(ScopeTeams(final_df[x].league_code)) >= 2

\* C18 as stated: a run with n_simulations below 1 ends in an error and
\* neither returns nor writes a table.
C18_CountBelowOneRejected ==
    (n_simulations < 1 /\ sim_pc # "idle") =>
        /\ sim_pc \in {"start", "league", "rep", "failed"}
        /\ league_outputs = <<>>
        /\ final_df = <<>>
        /\ files = {}

\* C19: empty history.  A run on a history without rows raises as its first
\* step: no replication is started or ranked, no league result and no final
\* table exist, no file is written.
C19_EmptyHistoryRaises ==
    (sim_pc # "idle" /\ df_clean = <<>> /\ sim_pc # "start") =>
        /\ sim_pc = "failed"
        /\ error # "none"
        /\ rep_log = <<>>
        /\ rank_log = <<>>
        /\ league_outputs = <<>>
        /\ final_df = <<>>
        /\ files = {}

\* a run of at least one replication over no rows has failed
C19_Witness ==
    /\ df_clean = <<>>
    /\ n_simulations >= 1
    /\ sim_pc = "failed"
    /\ error = "ValueError"

\* ------------------------------------------------ claims on the row builders
\* the last call: pre is the dict it was given, post the dict it left behind
\* the teams of the last call that had no state when it was made
Unseen == {bld_out.home_team, bld_out.away_team} \ DOMAIN bld_out.pre

\* the state a builder has to read for team t of the last call
StateRead(t) == IF t \in DOMAIN bld_out.pre THEN bld_out.pre[t] ELSE TeamState

RowOfLastCall ==
    FeatureRow(snapshot(StateRead(bld_out.home_team), bld_out.match_date),
               snapshot(StateRead(bld_out.away_team), bld_out.match_date))

RatesOf(feat, side) ==
    IF side = "home"
    THEN <<feat.home_points_per_game_pre, feat.home_goal_diff_per_game_pre,
           feat.home_recent_points_avg_pre, feat.home_recent_goal_diff_avg_pre>>
    ELSE <<feat.away_points_per_game_pre, feat.away_goal_diff_per_game_pre,
           feat.away_recent_points_avg_pre, feat.away_recent_goal_diff_avg_pre>>

PlayedOf(feat, side) ==
    IF side = "home" THEN feat.home_matches_played_pre ELSE feat.away_matches_played_pre

\* C21: a row is emitted for every match, and the side of a row that has no
\* match in the season (a new team, or a team whose season was just reset)
\* has 0.0 for its points per game, goal difference per game and the two
\* recent averages; so has the snapshot of every team state that stands at
\* zero matches with empty windows.
C21_RatesZeroOnNoMatches ==
    /\ Len(all_rows) = Len(rp_hist)
    /\ \A i \in 1..Len(all_rows) : \A side \in {"home", "away"} :
          PlayedOf(all_rows[i].feat, side) = 0 =>
              RatesOf(all_rows[i].feat, side) = <<0, 0, 0, 0>>
    /\ \A l \in Leagues : \A t \in DOMAIN league_states[l] :
          LET state == league_states[l][t]
              snap == snapshot(state, Len(rp_hist) + 1)
          IN  (state.season_matches = 0 /\ state.recent_points = <<>>
                 /\ state.recent_goal_diff = <<>>) =>
                 /\ snap.points_per_game_pre = 0
                 /\ snap.goal_diff_per_game_pre = 0
                 /\ snap.recent_points_avg_pre = 0
                 /\ snap.recent_goal_diff_avg_pre = 0

\* a team that won in the first season opens the second: its row has no
\* match played and zero rates, while its rating moved
C21_Witness ==
    /\ Len(all_rows) >= 2
    /\ rp_hist[1].league_code = rp_hist[2].league_code
    /\ rp_hist[1].season_code # rp_hist[2].season_code
    /\ rp_hist[1].home_team = rp_hist[2].away_team
    /\ rp_hist[1].result = "H"
    /\ all_rows[2].feat.away_matches_played_pre = 0
    /\ RatesOf(all_rows[2].feat, "away") = <<0, 0, 0, 0>>
    /\ all_rows[2].feat.away_elo_pre # INITIAL_ELO * EloScale

\* ------------------------------------------------------ the season codes
\* a season code: four digits, blanks around them aside
WellFormed(str) == Len(strip(str)) = 4 /\ \A i \in 1..4 : strip(str)[i] \in Digits

\* the first two digits of a well-formed code, as a number
FirstTwo(str) == 10 * DigitVal(strip(str)[1]) + DigitVal(strip(str)[2])

CenturyYear(yy) == IF yy >= 90 THEN 1900 + yy ELSE 2000 + yy

\* a file has been read
FileRead == ing_pc = "failed" \/ records # <<>>

C23_SnapshotPure ==
    bld_out.status # "none" =>
        \A t \in DOMAIN bld_out.pre :
            /\ t \in DOMAIN bld_out.post
            /\ bld_out.post[t] = bld_out.pre[t]

\* the simulator's builder made a row for two teams that have played
C23_Witness ==
    /\ bld_kind = "sim"
    /\ bld_out.status = "ok"
    /\ bld_out.pre[bld_out.home_team].season_matches > 0
    /\ bld_out.pre[bld_out.away_team].recent_points # <<>>
    /\ bld_out.row.home_rest_days_pre # DEFAULT_REST_DAYS
    /\ bld_out.row.elo_diff # 0

\* ------------------------------------------------------- the run as a unit
\* C24 as stated: a first run that stopped with an error has written no
\* plot, CSV or report.
C24_NoFilesOnError ==
    (sim_pc = "failed" /\ run_no = 1) => files = {}

\* ------------------------------------------- training and serving states
\* C25 as stated: for every team of a league's latest season, the state the
\* simulator and the state the live service build from the frame are the
\* state the feature engine holds after the last row of that season, so the
\* row of a next fixture has the same values from the three of them.
C25_FeatureParity ==
    rp_pc = "loaded" =>
        \A l \in Leagues : \A d \in Teams :
            /\ \A t \in DOMAIN latest_states.live[l] :
                  /\ latest_states.live[l][t] = league_states[l][t]
                  /\ snapshot(latest_states.live[l][t], Len(rp_hist) + d)
                        = snapshot(league_states[l][t], Len(rp_hist) + d)
            /\ \A t \in DOMAIN latest_states.sim[l] :
                  /\ latest_states.sim[l][t] = league_states[l][t]
                  /\ snapshot(latest_states.sim[l][t], Len(rp_hist) + d)
                        = snapshot(league_states[l][t], Len(rp_hist) + d)

\* ------------------------------------------------------ leagues apart
\* C26: a row of league X, a row that opens a season of X included, changes
\* the dict of league X only: the team states and the current season of
\* every other league stay as they were, whatever the teams are called.
C26_LeagueIsolation ==
    [][rp_hist' # rp_hist =>
          \A l \in Leagues :
              l # rp_hist'[Len(rp_hist')].league_code =>
                  /\ league_states'[l] = league_states[l]
                  /\ current_season'[l] = current_season[l]
                  /\ rp_resets'[l] = rp_resets[l]]_vars

\* team 1 plays in both leagues; the second league went through a season
\* change that regressed its team 1, the first league's team 1 still has its
\* match and its rating
C26_Witness ==
    /\ 1 \in DOMAIN league_states[1]
    /\ 1 \in DOMAIN league_states[2]
    /\ rp_resets[2][1] = 1
    /\ rp_resets[1][1] = 0
    /\ league_states[1][1].season_matches = 1
    /\ league_states[1][1].elo # INITIAL_ELO * EloScale
    /\ league_states[1][1] # league_states[2][1]

\* ------------------------------------------------ table and states together
\* a table row carries the season aggregates of the team's state
RowMatchesState(entry, state) ==
    /\ entry.points = state.season_points
    /\ entry.gf = state.season_goals_for
    /\ entry.ga = state.season_goals_against
    /\ entry.played = state.season_matches
    /\ entry.gd = entry.gf - entry.ga

\* the base objects after the first k rows of the season
BaseAfter(season_df, k) ==
    replay_rows(new_teams(EmptyStore, "base", teams_of(season_df)),
                [t \in Range(teams_of(season_df)) |-> <<"base", t>>],
                [t \in Range(teams_of(season_df)) |-> <<"base", t>>],
                SubSeq(season_df, 1, k))

\* C27: after every row of the base replay and after every fixture of every
\* replication, each team's table row has the points, goals for, goals
\* against and matches of the team's state, and gd = gf - ga (the copies of
\* a replication are looked at while the league's objects exist).
C27_TableMatchesStates ==
    /\ \A t \in DOMAIN base_states :
          RowMatchesState(store.tb[base_table[t]], Load(store, base_states[t]))
    /\ \A t \in DOMAIN states :
          states[t] \in DOMAIN store.st =>
              RowMatchesState(store.tb[table[t]], Load(store, states[t]))
    /\ (sim_pc = "rep" /\ rep_i = 0) =>
          \A k \in 0..Len(season_block(df_clean, league_code)) :
              \A t \in Range(teams) :
                  RowMatchesState(
                      BaseAfter(season_block(df_clean, league_code), k).tb[<<"base", t>>],
                      Load(BaseAfter(season_block(df_clean, league_code), k), <<"base", t>>))

\* a replication has simulated a fixture: a team of it has moved away from
\* its base row, with points and a goal difference
C27_Witness ==
    /\ sim_pc = "fixture"
    /\ fix_i >= 1
    /\ \E t \in DOMAIN states :
          /\ store.tb[table[t]].points > store.tb[base_table[t]].points
          /\ store.tb[base_table[t]].played > 0
          /\ store.tb[table[t]].gd # 0
          /\ store.tb[table[t]].gd # store.tb[base_table[t]].gd

\* ------------------------------------------------------------ the tallies
RECURSIVE SumOver(_, _)
SumOver(f, S) ==
    IF S = {} THEN 0
    ELSE LET x == CHOOSE y \in S : TRUE IN f[x] + SumOver(f, S \ {x})

\* the sum of a column of a league's output rows
ColumnSum(rows, column) == SumSeq([i \in DOMAIN rows |-> rows[i][column]])

FullyTied(x, y) == x.points = y.points /\ x.gd = y.gd /\ x.gf = y.gf

\* C29: two teams that end a replication level on points, goal difference
\* and goals for stand in the order of their names, the first name higher;
\* a table in which all teams are level is ranked in the order of the names,
\* whatever fixtures and draws led to it.
C29_FullTiesByName ==
    \A k \in DOMAIN rank_log :
        LET e == rank_log[k]
        IN  /\ \A i, j \in DOMAIN e.ranking :
                  (FullyTied(e.table[e.ranking[i]], e.table[e.ranking[j]])
                     /\ e.ranking[i] < e.ranking[j]) => i < j
            /\ (\A s, t \in DOMAIN e.table : FullyTied(e.table[s], e.table[t])) =>
                  e.ranking = Ascending(DOMAIN e.table)

\* a replication that simulated fixtures ended with two teams level on
\* points, goal difference and goals for
C29_Witness ==
    \E k \in DOMAIN rank_log :
        LET e == rank_log[k]
        IN  /\ rep_log[k].fixtures > 0
            /\ \E i, j \in DOMAIN e.ranking :
                  /\ i < j
                  /\ FullyTied(e.table[e.ranking[i]], e.table[e.ranking[j]])
                  /\ e.table[e.ranking[i]].played > 0

\* ---- C30: rest days are never negative
\* C30 (as stated): every feature row built by the replay, by the simulator
\* or by the live service for a requested fixture date carries
\* rest_days_pre >= 0 for both sides.
C30_RestDaysNeverNegative ==
    bld_out.status = "ok" =>
        /\ bld_out.row.home_rest_days_pre >= 0
        /\ bld_out.row.away_rest_days_pre >= 0

====
